---- MODULE Spec2Model ----
(***************************************************************************)
(* Sculpt brush-stroke evaluation: the symmetry / radial / tiling driver,  *)
(* the stroke cache life cycle of the brush-stroke operator, cancellation  *)
(* and the mesh filter that shares its undo and flush contracts.           *)
(* Modelled from source/blender/editors/sculpt_paint/sculpt.cc and         *)
(* sculpt_filter_mesh.cc.                                                  *)
(***************************************************************************)
EXTENDS Integers, Sequences, FiniteSets, TLC

(***************************************************************************)
(* Bounds of the model.                                                    *)
(***************************************************************************)
NumNodes == 2
MaxSteps == 2

\* a null pointer is the empty sequence, a valid one the sequence of its target
NULL == "NULL"
NONE == "NONE"
NullPtr == <<>>
NoSnapshot == -1
\* no pure function is called
NoCall == [fn |-> NONE]

VARIABLES
  \* ---- symmetry driver inputs and output (SpecSymm) ----
  symm,            \* mesh->symmetry, bit0 = X, bit1 = Y, bit2 = Z
  radial_symm,     \* sd.radial_symm[3]
  tile,            \* [flags, step, radius, true_location] read by do_tiled
  passes,          \* the leaf passes run by the last do_symmetrical_brush_actions
  \* ---- brush stroke / mesh filter operators (Spec) ----
  op,              \* operator and PaintStroke state
  cfg,             \* brush, tool settings and mesh backend of the session
  ss,              \* SculptSession: cache, filter_cache, fake_neighbors
  mesh,            \* per node vertex data: positions, mask, color, face_set
  pbvh,            \* per node bounds and update flags
  undo,            \* the sculpt undo step: open flag and per (node, type) snapshots
  hist,            \* history of the running / last stroke
  \* ---- calls of the pure functions ----
  call             \* the function called, its arguments and, once it ran, its results

symmVars == <<symm, radial_symm, tile, passes>>
strokeVars == <<op, cfg, ss, mesh, pbvh, undo, hist>>
vars == <<symm, radial_symm, tile, passes, op, cfg, ss, mesh, pbvh, undo, hist, call>>

(***************************************************************************)
(* Symmetry & tiling driver.                                               *)
(***************************************************************************)

\* bit k of a 3 bit mask
Bit(n, k) == (n \div (2 ^ k)) % 2

\* symm & i on 3 bit masks
BitAnd(a, b) == Bit(a, 0) * Bit(b, 0) + 2 * Bit(a, 1) * Bit(b, 1) + 4 * Bit(a, 2) * Bit(b, 2)

SCULPT_is_symmetry_iteration_valid_sparse(i, s) ==
  i = 0 \/ (BitAnd(s, i) # 0 /\ i \in {1, 2, 4})

SCULPT_is_symmetry_iteration_valid(i, s) ==
  i = 0 \/ (BitAnd(s, i) # 0 /\ (s # 5 \/ i # 3) /\ (s # 6 \/ i \notin {3, 5}))

\* symmetry_flip: negate the coordinate of every axis whose bit is set
symmetry_flip(v, s) ==
  [d \in 1..3 |-> IF Bit(s, d - 1) = 1 THEN -v[d] ELSE v[d]]

\* rotate_m4 by one quarter turn about an axis ("X", "Y", "Z")
RotQuarter(axis, v) ==
  CASE axis = "X" -> <<v[1], -v[3], v[2]>>
    [] axis = "Y" -> <<v[3], v[2], -v[1]>>
    [] axis = "Z" -> <<-v[2], v[1], v[3]>>

RECURSIVE RotQuarters(_, _, _)
RotQuarters(axis, q, v) ==
  IF q = 0 THEN v ELSE RotQuarters(axis, q - 1, RotQuarter(axis, v))

\* SCULPT_cache_calc_brushdata_symm: cache.location for a pass; the angle
\* 2*pi*i/n is a whole number of quarter turns for the radial counts modelled.
SCULPT_cache_calc_brushdata_symm(true_location, s, axis, i, n) ==
  LET flipped == symmetry_flip(true_location, s)
  IN IF axis = NONE THEN flipped ELSE RotQuarters(axis, (4 * i) \div n, flipped)

\* conversion of a float quotient to int: truncation toward zero
TruncDiv(a, b) == IF a >= 0 THEN a \div b ELSE -((-a) \div b)

TileBBMin == -1
TileBBMax == 1

\* start[dim] / end[dim] of do_tiled
TileStart(t, orgLoc, dim) ==
  IF (dim - 1) \in t.flags /\ t.step > 0
    THEN TruncDiv(TileBBMin - orgLoc[dim] - t.radius, t.step) ELSE 0

TileEnd(t, orgLoc, dim) ==
  IF (dim - 1) \in t.flags /\ t.step > 0
    THEN TruncDiv(TileBBMax - orgLoc[dim] + t.radius, t.step) ELSE 0

\* the cur[] triples of the three nested loops of do_tiled, in loop order,
\* without the tile at orgLoc
TileCurs(t, orgLoc) ==
  LET s1 == TileStart(t, orgLoc, 1)  e1 == TileEnd(t, orgLoc, 1)
      s2 == TileStart(t, orgLoc, 2)  e2 == TileEnd(t, orgLoc, 2)
      s3 == TileStart(t, orgLoc, 3)  e3 == TileEnd(t, orgLoc, 3)
      n1 == IF e1 >= s1 THEN e1 - s1 + 1 ELSE 0
      n2 == IF e2 >= s2 THEN e2 - s2 + 1 ELSE 0
      n3 == IF e3 >= s3 THEN e3 - s3 + 1 ELSE 0
      all == [k \in 1..(n1 * n2 * n3) |->
                <<s1 + ((k - 1) \div (n2 * n3)),
                  s2 + (((k - 1) \div n3) % n2),
                  s3 + ((k - 1) % n3)>>]
  IN SelectSeq(all, LAMBDA c : c # <<0, 0, 0>>)

\* do_tiled with the tiled repeats first and the un-tiled position last
do_tiled_untiled_last(t, orgLoc, mirror, axis, radial) ==
  LET curs == TileCurs(t, orgLoc)
  IN [k \in 1..Len(curs) |->
         [mirror |-> mirror, axis |-> axis, radial |-> radial, tile |-> k, cur |-> curs[k]]]
     \o <<[mirror |-> mirror, axis |-> axis, radial |-> radial, tile |-> 0,
           cur |-> <<0, 0, 0>>]>>

\* do_tiled: the leaf passes of one call, as (mirror, axis, radial, tile_pass, cur)
do_tiled(t, orgLoc, mirror, axis, radial) ==
  LET curs == TileCurs(t, orgLoc)
  IN <<[mirror |-> mirror, axis |-> axis, radial |-> radial, tile |-> 0,
        cur |-> <<0, 0, 0>>]>>
     \o [k \in 1..Len(curs) |->
           [mirror |-> mirror, axis |-> axis, radial |-> radial, tile |-> k, cur |-> curs[k]]]

AxisIndex(axis) == CASE axis = "X" -> 1 [] axis = "Y" -> 2 [] axis = "Z" -> 3

RECURSIVE RadialFrom(_, _, _, _, _)
RadialFrom(t, rs, mirror, axis, i) ==
  IF i >= rs[AxisIndex(axis)] THEN <<>>
  ELSE do_tiled(t,
                SCULPT_cache_calc_brushdata_symm(t.true_location, mirror, axis, i,
                                                 rs[AxisIndex(axis)]),
                mirror, axis, i)
       \o RadialFrom(t, rs, mirror, axis, i + 1)

\* do_radial_symmetry: for (i = 1; i < sd.radial_symm[axis - 'X']; i++)
do_radial_symmetry(t, rs, mirror, axis) == RadialFrom(t, rs, mirror, axis, 1)

\* the body of the mirror loop of do_symmetrical_brush_actions
MirrorBody(t, rs, i) ==
  do_tiled(t, SCULPT_cache_calc_brushdata_symm(t.true_location, i, NONE, 0, 1), i, NONE, 0)
  \o do_radial_symmetry(t, rs, i, "X")
  \o do_radial_symmetry(t, rs, i, "Y")
  \o do_radial_symmetry(t, rs, i, "Z")

RECURSIVE MirrorFrom(_, _, _, _)
MirrorFrom(t, rs, s, i) ==
  IF i > s THEN <<>>
  ELSE (IF SCULPT_is_symmetry_iteration_valid(i, s) THEN MirrorBody(t, rs, i) ELSE <<>>)
       \o MirrorFrom(t, rs, s, i + 1)

do_symmetrical_brush_actions_all_masks(t, rs, s) == MirrorFrom(t, rs, 7, 0)

\* do_symmetrical_brush_actions: for (int i = 0; i <= symm; i++)
do_symmetrical_brush_actions(t, rs, s) == MirrorFrom(t, rs, s, 0)


(***************************************************************************)
(* Session data: spatial nodes, vertex data, undo step, fake neighbors.    *)
(***************************************************************************)

Nodes == 1..NumNodes

UndoTypes == {"Position", "Mask", "Color", "FaceSet"}

PbvhTypes == {"Mesh", "Grids", "BMesh"}

\* the brushes of the model: tool, BRUSH_ANCHORED, deform_target == CLOTH_SIM,
\* image canvas painting (SCULPT_use_image_paint_brush) and the stroke mode
BrushVariants ==
  { [tool |-> "DRAW", anchored |-> FALSE, cloth |-> FALSE, image_paint |-> FALSE, smooth |-> FALSE],
    [tool |-> "DRAW", anchored |-> TRUE, cloth |-> FALSE, image_paint |-> FALSE, smooth |-> FALSE],
    [tool |-> "ROTATE", anchored |-> FALSE, cloth |-> FALSE, image_paint |-> FALSE, smooth |-> FALSE],
    [tool |-> "ROTATE", anchored |-> FALSE, cloth |-> TRUE, image_paint |-> FALSE, smooth |-> FALSE],
    [tool |-> "MASK", anchored |-> FALSE, cloth |-> FALSE, image_paint |-> FALSE, smooth |-> FALSE],
    [tool |-> "PAINT", anchored |-> FALSE, cloth |-> FALSE, image_paint |-> FALSE, smooth |-> FALSE],
    [tool |-> "PAINT", anchored |-> FALSE, cloth |-> FALSE, image_paint |-> TRUE, smooth |-> FALSE],
    [tool |-> "SMEAR", anchored |-> FALSE, cloth |-> FALSE, image_paint |-> FALSE, smooth |-> FALSE],
    [tool |-> "DRAW_FACE_SETS", anchored |-> FALSE, cloth |-> FALSE, image_paint |-> FALSE,
     smooth |-> FALSE],
    [tool |-> "DRAW_FACE_SETS", anchored |-> FALSE, cloth |-> FALSE, image_paint |-> FALSE,
     smooth |-> TRUE] }

\* mesh->symmetry values of the stroke model: none, or mirror X
StrokeSymms == {0, 1}

\* ss.shapekey_active is read by flush_update_step only; the operators run
\* without an active shape key, FlushConfigs below has both cases
Configs ==
  { [brush |-> b, pbvh_type |-> p, gravity |-> g, automasking |-> a, use_pbvh_draw |-> d,
     symm |-> s, shapekey_active |-> FALSE] :
      b \in BrushVariants, p \in PbvhTypes, g \in BOOLEAN, a \in BOOLEAN, d \in BOOLEAN,
      s \in StrokeSymms }

\* the configurations of the flush of a step: every brush, pbvh type and
\* drawing mode, with and without an active shape key
FlushConfigs ==
  { [c EXCEPT !.shapekey_active = k] :
      c \in {x \in Configs : ~x.gravity /\ ~x.automasking /\ x.symm = 0}, k \in BOOLEAN }

\* distances accepted by SCULPT_fake_neighbors_ensure callers of the model
MaxDists == {1, 2}

InitPosition(n) == n - 1

\* node bounds computed from the positions of the node's vertex
BoundsOf(p) == [min |-> p, max |-> p]

InitWorld ==
  [ss |-> [cache |-> NullPtr, filter_cache |-> NullPtr,
           fake_neighbors |-> [fake_neighbor_index |-> NullPtr, current_max_distance |-> 0]],
   mesh |-> [t \in UndoTypes |->
               [n \in Nodes |-> IF t = "Position" THEN InitPosition(n) ELSE 0]],
   pbvh |-> [bounds |-> [n \in Nodes |-> BoundsOf(InitPosition(n))],
             update_bb |-> [n \in Nodes |-> FALSE]],
   undo |-> [active |-> FALSE, nodes |-> [n \in Nodes |-> [t \in UndoTypes |-> NoSnapshot]]],
   hist |-> [trace |-> <<>>,
             live |-> [cache |-> 0, dial |-> 0, automasking |-> 0, cloth_sim |-> 0],
             orig |-> [t \in UndoTypes |->
                         [n \in Nodes |-> IF t = "Position" THEN InitPosition(n) ELSE 0]],
             changed |-> [t \in UndoTypes |-> {}],
             captures |-> [n \in Nodes |-> [t \in UndoTypes |-> 0]],
             report |-> NONE,
             ended |-> NONE,
             flushed |-> NONE,
             steps |-> 0,
             step_flush |-> [type |-> NONE, tagged |-> 0]]]

World == [ss |-> ss, mesh |-> mesh, pbvh |-> pbvh, undo |-> undo, hist |-> hist]

Log(w, e) == [w EXCEPT !.hist.trace = Append(@, e)]

\* ---- external predicates on tools (declared outside the files modelled) ----
SCULPT_tool_is_paint(tool) == tool \in {"PAINT", "SMEAR"}

SCULPT_TOOL_HAS_DYNTOPO(tool) ==
  tool \notin {"ROTATE", "MASK", "PAINT", "SMEAR", "DRAW_FACE_SETS"}

\* ---- pbvh node flags and bounds ----
BKE_pbvh_node_mark_positions_update(w, nodes) ==
  [w EXCEPT !.pbvh.update_bb = [n \in Nodes |-> IF n \in nodes THEN TRUE ELSE @[n]]]

\* bke::pbvh::update_bounds: recompute the bounds of the nodes tagged for it
update_bounds(w) ==
  [w EXCEPT !.pbvh.bounds = [n \in Nodes |->
                               IF w.pbvh.update_bb[n]
                                 THEN BoundsOf(w.mesh["Position"][n]) ELSE @[n]],
            !.pbvh.update_bb = [n \in Nodes |-> FALSE]]

\* ---- undo ----
\* undo::push_begin: a new undo step without nodes
undo_push_begin(w) ==
  [w EXCEPT !.undo = [active |-> TRUE,
                      nodes |-> [n \in Nodes |-> [t \in UndoTypes |-> NoSnapshot]]],
            !.hist.captures = [n \in Nodes |-> [t \in UndoTypes |-> 0]]]

undo_push_end(w) == [w EXCEPT !.undo.active = FALSE]

\* undo::push_nodes: snapshot the data of the nodes that have no undo node of
\* that type in the step yet
undo_push_nodes(w, nodes, type) ==
  [w EXCEPT !.undo.nodes =
              [n \in Nodes |->
                 IF n \in nodes /\ w.undo.nodes[n][type] = NoSnapshot
                   THEN [@[n] EXCEPT ![type] = w.mesh[type][n]] ELSE @[n]],
            !.hist.captures =
              [n \in Nodes |->
                 IF n \in nodes /\ w.undo.nodes[n][type] = NoSnapshot
                   THEN [@[n] EXCEPT ![type] = @ + 1] ELSE @[n]]]

\* the write of a brush or filter to the vertex data of the nodes it is given
ChangeData(w, nodes, type) ==
  [w EXCEPT !.mesh[type] = [n \in Nodes |-> IF n \in nodes THEN @[n] + 1 ELSE @[n]],
            !.hist.changed[type] = @ \cup nodes]


\* undo::restore_position_from_undo_step: nodes with a Position undo node get
\* the snapshot back and are tagged for a bounds update
restore_position_from_undo_step(w) ==
  LET has == {n \in Nodes : w.undo.nodes[n]["Position"] # NoSnapshot}
  IN BKE_pbvh_node_mark_positions_update(
       [w EXCEPT !.mesh["Position"] =
                   [n \in Nodes |-> IF n \in has THEN w.undo.nodes[n]["Position"] ELSE @[n]]],
       has)

\* restore_mask_from_undo_step, restore_color_from_undo_step,
\* restore_face_set_from_undo_step
restore_attribute_from_undo_step(w, type) ==
  [w EXCEPT !.mesh[type] =
              [n \in Nodes |-> IF w.undo.nodes[n][type] # NoSnapshot
                                 THEN w.undo.nodes[n][type] ELSE @[n]]]

\* undo::restore_from_undo_step: switch (brush->sculpt_tool)
restore_from_undo_step(w, c) ==
  CASE c.brush.tool = "MASK" -> restore_attribute_from_undo_step(w, "Mask")
    [] c.brush.tool \in {"PAINT", "SMEAR"} -> restore_attribute_from_undo_step(w, "Color")
    [] c.brush.tool = "DRAW_FACE_SETS" ->
         IF w.ss.cache[1].alt_smooth THEN restore_position_from_undo_step(w)
         ELSE restore_attribute_from_undo_step(w, "FaceSet")
    [] OTHER -> restore_position_from_undo_step(w)

(***************************************************************************)
(* Fake neighbors.                                                         *)
(***************************************************************************)

FAKE_NEIGHBOR_NONE == -1

DistSq(positions, a, b) == (positions[a] - positions[b]) * (positions[a] - positions[b])

\* fake_neighbor_search: the nearest vertex of another island that has no fake
\* neighbor yet and lies below the max distance; every node is its own island
fake_neighbor_search(positions, index, v, max_dist) ==
  LET cand == {u \in Nodes : u # v /\ index[u] = FAKE_NEIGHBOR_NONE
                             /\ DistSq(positions, u, v) < max_dist * max_dist}
      best == {u \in cand : \A x \in cand : DistSq(positions, u, v) <= DistSq(positions, x, v)}
  IN IF cand = {} THEN FAKE_NEIGHBOR_NONE
     ELSE CHOOSE u \in best : \A x \in best : u <= x

\* fake_neighbor_add
fake_neighbor_add(index, a, b) ==
  IF index[a] = FAKE_NEIGHBOR_NONE THEN [index EXCEPT ![a] = b, ![b] = a] ELSE index

RECURSIVE FakeNeighborLoop(_, _, _, _)
FakeNeighborLoop(positions, index, i, max_dist) ==
  IF i > NumNodes THEN index
  ELSE LET to_v == IF index[i] = FAKE_NEIGHBOR_NONE
                     THEN fake_neighbor_search(positions, index, i, max_dist)
                     ELSE FAKE_NEIGHBOR_NONE
           next == IF to_v # FAKE_NEIGHBOR_NONE THEN fake_neighbor_add(index, i, to_v)
                   ELSE index
       IN FakeNeighborLoop(positions, next, i + 1, max_dist)

\* fake_neighbor_init followed by the search loop of SCULPT_fake_neighbors_ensure
BuildFakeNeighbors(positions, max_dist) ==
  FakeNeighborLoop(positions, [n \in Nodes |-> FAKE_NEIGHBOR_NONE], 1, max_dist)

SCULPT_fake_neighbors_ensure(w, max_dist) ==
  IF w.ss.fake_neighbors.fake_neighbor_index # NullPtr
     /\ w.ss.fake_neighbors.current_max_distance = max_dist
    THEN w
    ELSE [w EXCEPT !.ss.fake_neighbors =
                     [fake_neighbor_index |-> <<BuildFakeNeighbors(w.mesh["Position"], max_dist)>>,
                      current_max_distance |-> max_dist]]

\* SCULPT_fake_neighbors_free: MEM_SAFE_FREE(fake_neighbor_index)
SCULPT_fake_neighbors_free(w) ==
  [w EXCEPT !.ss.fake_neighbors.fake_neighbor_index = NullPtr]

(***************************************************************************)
(* Flush.                                                                  *)
(***************************************************************************)

\* flush_update_step that tags the mesh once per node tagged for an update
flush_update_step_per_node(w, c, update_type) ==
  LET w1 == IF update_type = "Image" THEN w
            ELSE IF c.use_pbvh_draw /\ update_type = "Position" THEN update_bounds(w)
            ELSE w
      tagged == IF update_type = "Position" /\ ~c.shapekey_active /\ c.pbvh_type = "Mesh"
                  THEN Cardinality({n \in Nodes : w.pbvh.update_bb[n]}) ELSE 0
  IN [w1 EXCEPT !.hist.step_flush = [type |-> update_type, tagged |-> tagged]]

\* flush_update_step; tagged counts its calls of mesh->tag_positions_changed()
\* and mesh->tag_positions_changed_no_normals()
flush_update_step(w, c, update_type) ==
  LET w1 == IF update_type = "Image" THEN w
            ELSE IF c.use_pbvh_draw /\ update_type = "Position" THEN update_bounds(w)
            ELSE w
      tagged == IF update_type = "Position" /\ ~c.shapekey_active /\ c.pbvh_type = "Mesh"
                  THEN 1 ELSE 0
  IN [w1 EXCEPT !.hist.step_flush = [type |-> update_type, tagged |-> tagged]]

\* flush_update_done that keeps the fake neighbors
flush_update_done_keep(w, update_type) ==
  [w EXCEPT !.hist.flushed = update_type]

\* flush_update_done
flush_update_done(w, update_type) ==
  LET w1 == IF update_type = "Position" THEN SCULPT_fake_neighbors_free(w) ELSE w
  IN [w1 EXCEPT !.hist.flushed = update_type]


(***************************************************************************)
(* Stroke cache.                                                           *)
(***************************************************************************)

\* dyntopo::stroke_is_dyntopo (no brush of the model sets BRUSH_DRAG_DOT)
stroke_is_dyntopo(w, c) ==
  /\ c.pbvh_type = "BMesh"
  /\ (w.ss.cache = NullPtr \/ ~w.ss.cache[1].alt_smooth)
  /\ ~c.brush.anchored
  /\ SCULPT_TOOL_HAS_DYNTOPO(c.brush.tool)

\* a destructor that leaves the dial allocated
StrokeCache_destructor_leak(live, cache) ==
  [live EXCEPT !.automasking = IF cache.automasking # NULL THEN @ - 1 ELSE @,
               !.cloth_sim = IF cache.cloth_sim # NULL THEN @ - 1 ELSE @]

\* StrokeCache::~StrokeCache: MEM_SAFE_FREE(dial), then the members
\* (automasking and cloth_sim are owning pointers) are destroyed
StrokeCache_destructor(live, cache) ==
  [live EXCEPT !.dial = IF cache.dial # NULL THEN @ - 1 ELSE @,
               !.automasking = IF cache.automasking # NULL THEN @ - 1 ELSE @,
               !.cloth_sim = IF cache.cloth_sim # NULL THEN @ - 1 ELSE @]

\* MEM_delete(ss.cache); ss.cache = nullptr;
DeleteCache(w) ==
  IF w.ss.cache = NullPtr THEN w
  ELSE [w EXCEPT !.hist.live = [StrokeCache_destructor(@, w.ss.cache[1]) EXCEPT !.cache = @ - 1],
                 !.hist.trace = Append(@, [ev |-> "destroy"]),
                 !.ss.cache = NullPtr]

\* sculpt_update_cache_invariants: a new StrokeCache becomes ss.cache
sculpt_update_cache_invariants(w, c) ==
  [w EXCEPT !.ss.cache =
             <<[alt_smooth |-> c.brush.smooth,
               supports_gravity |-> c.brush.tool # "MASK" /\ c.gravity,
               first_time |-> TRUE,
               dial |-> IF c.brush.tool = "ROTATE" THEN "dial" ELSE NULL,
               automasking |-> NULL,
               cloth_sim |-> NULL,
               paint_face_set |-> NONE,
               mirror_symmetry_pass |-> 0,
               radial_symmetry_pass |-> 0,
               tile_pass |-> 0]>>,
            !.hist.live = [@ EXCEPT !.cache = @ + 1,
                                    !.dial = IF c.brush.tool = "ROTATE" THEN @ + 1 ELSE @],
            !.hist.trace = Append(@, [ev |-> "invariants"])]

\* sculpt_stroke_test_start, on the branch that starts the stroke
sculpt_stroke_test_start(w, c) ==
  LET w0 == [w EXCEPT !.hist.trace = <<>>,
                      !.hist.orig = w.mesh,
                      !.hist.changed = [t \in UndoTypes |-> {}],
                      !.hist.ended = NONE,
                      !.hist.flushed = NONE]
      w1 == sculpt_update_cache_invariants(w0, c)
  IN undo_push_begin(w1)

SCULPT_stroke_is_first_brush_step(cache) ==
  cache.first_time /\ cache.mirror_symmetry_pass = 0 /\ cache.radial_symmetry_pass = 0
  /\ cache.tile_pass = 0

\* sculpt_needs_pbvh_pixels
sculpt_needs_pbvh_pixels(c) == c.brush.tool = "PAINT" /\ c.brush.image_paint

\* push_undo_nodes
push_undo_nodes(w, c, nodes) ==
  LET tool == c.brush.tool
      need_coords ==
        IF tool = "DRAW_FACE_SETS" THEN w.ss.cache[1].supports_gravity \/ w.ss.cache[1].alt_smooth
        ELSE IF tool = "MASK" \/ SCULPT_tool_is_paint(tool) THEN w.ss.cache[1].supports_gravity
        ELSE TRUE
      w1 == CASE tool = "DRAW_FACE_SETS" ->
                   IF w.ss.cache[1].alt_smooth THEN w ELSE undo_push_nodes(w, nodes, "FaceSet")
              [] tool = "MASK" -> undo_push_nodes(w, nodes, "Mask")
              [] SCULPT_tool_is_paint(tool) -> undo_push_nodes(w, nodes, "Color")
              [] OTHER -> w
  IN IF need_coords
       THEN BKE_pbvh_node_mark_positions_update(undo_push_nodes(w1, nodes, "Position"), nodes)
       ELSE w1

\* the switch (brush.sculpt_tool) of do_brush_action: the data the tool writes
ApplyTool(w, c, nodes) ==
  CASE c.brush.tool \in {"DRAW", "ROTATE"} ->
         BKE_pbvh_node_mark_positions_update(ChangeData(w, nodes, "Position"), nodes)
    [] c.brush.tool = "MASK" -> ChangeData(w, nodes, "Mask")
    [] c.brush.tool = "PAINT" ->
         IF sculpt_needs_pbvh_pixels(c) THEN w ELSE ChangeData(w, nodes, "Color")
    [] c.brush.tool = "SMEAR" -> ChangeData(w, nodes, "Color")
    [] c.brush.tool = "DRAW_FACE_SETS" ->
         IF w.ss.cache[1].alt_smooth
           THEN BKE_pbvh_node_mark_positions_update(ChangeData(w, nodes, "Position"), nodes)
           ELSE ChangeData(w, nodes, "FaceSet")

\* do_brush_action without the early return on an empty node list
do_brush_action_no_early_return(w, c, nodes) ==
  LET cache == w.ss.cache[1]
      use_pixels == sculpt_needs_pbvh_pixels(c)
      first == SCULPT_stroke_is_first_brush_step(cache)
      \* face set picked on the first brush step, whatever was gathered
      w1 == IF c.brush.tool = "DRAW_FACE_SETS" /\ first /\ ~cache.alt_smooth
              THEN [w EXCEPT !.ss.cache[1].paint_face_set = "set"] ELSE w
      \* auto-masking cache; falloff_shape is PAINT_FALLOFF_SHAPE_SPHERE
      w2 == IF (nodes # {} \/ c.brush.anchored) /\ first /\ c.automasking
              THEN [w1 EXCEPT !.ss.cache[1].automasking = "automasking",
                              !.hist.live.automasking =
                                 IF cache.automasking = NULL THEN @ + 1 ELSE @]
              ELSE w1
      w3 == IF ~use_pixels THEN push_undo_nodes(w2, c, nodes) ELSE w2
      w4 == IF c.brush.cloth /\ w3.ss.cache[1].cloth_sim = NULL
              THEN [w3 EXCEPT !.ss.cache[1].cloth_sim = "cloth_sim",
                              !.hist.live.cloth_sim = @ + 1]
              ELSE w3
      w5 == ApplyTool(w4, c, nodes)
      \* do_gravity_brush
      w6 == IF w5.ss.cache[1].supports_gravity /\ c.brush.tool # "DRAW_FACE_SETS"
              THEN BKE_pbvh_node_mark_positions_update(ChangeData(w5, nodes, "Position"), nodes)
              ELSE w5
  IN IF use_pixels /\ nodes = {} THEN w ELSE w6

\* do_brush_action for the pass the cache is set to, with the gathered nodes
do_brush_action(w, c, nodes) ==
  LET cache == w.ss.cache[1]
      use_pixels == sculpt_needs_pbvh_pixels(c)
      first == SCULPT_stroke_is_first_brush_step(cache)
      \* face set picked on the first brush step, whatever was gathered
      w1 == IF c.brush.tool = "DRAW_FACE_SETS" /\ first /\ ~cache.alt_smooth
              THEN [w EXCEPT !.ss.cache[1].paint_face_set = "set"] ELSE w
      \* auto-masking cache; falloff_shape is PAINT_FALLOFF_SHAPE_SPHERE
      w2 == IF (nodes # {} \/ c.brush.anchored) /\ first /\ c.automasking
              THEN [w1 EXCEPT !.ss.cache[1].automasking = "automasking",
                              !.hist.live.automasking =
                                 IF cache.automasking = NULL THEN @ + 1 ELSE @]
              ELSE w1
      w3 == IF ~use_pixels THEN push_undo_nodes(w2, c, nodes) ELSE w2
      w4 == IF c.brush.cloth /\ w3.ss.cache[1].cloth_sim = NULL
              THEN [w3 EXCEPT !.ss.cache[1].cloth_sim = "cloth_sim",
                              !.hist.live.cloth_sim = @ + 1]
              ELSE w3
      w5 == ApplyTool(w4, c, nodes)
      \* do_gravity_brush
      w6 == IF w5.ss.cache[1].supports_gravity /\ c.brush.tool # "DRAW_FACE_SETS"
              THEN BKE_pbvh_node_mark_positions_update(ChangeData(w5, nodes, "Position"), nodes)
              ELSE w5
  IN IF use_pixels /\ nodes = {} THEN w
     ELSE IF nodes = {} THEN w2
     ELSE w6

\* sculpt_topology_update
sculpt_topology_update(w, c, nodes) ==
  IF nodes = {} THEN w
  ELSE BKE_pbvh_node_mark_positions_update(
         undo_push_nodes(w, nodes, IF c.brush.tool = "MASK" THEN "Mask" ELSE "Position"),
         nodes)

\* the passes of a step of the stroke model: no radial repeats, no tiling
StrokeTile == [flags |-> {}, step |-> 0, radius |-> 1, true_location |-> <<0, 0, 0>>]

StrokePasses(c) == do_symmetrical_brush_actions(StrokeTile, <<1, 1, 1>>, c.symm)

\* the node sets a gather returns in the model: none, or the first k nodes
GatherSets == {{}} \cup {1..k : k \in Nodes}

\* one gather result per pass of a step
Gathers == [1..2 -> GatherSets]

RECURSIVE RunPasses(_, _, _, _, _, _)
RunPasses(w, c, ps, k, g, action) ==
  IF k > Len(ps) THEN w
  ELSE LET w1 == [w EXCEPT !.ss.cache[1].mirror_symmetry_pass = ps[k].mirror,
                           !.ss.cache[1].radial_symmetry_pass = ps[k].radial,
                           !.ss.cache[1].tile_pass = ps[k].tile,
                           !.hist.trace = Append(@, [ev |-> "pass", action |-> action,
                                                     mirror |-> ps[k].mirror,
                                                     radial |-> ps[k].radial,
                                                     tile |-> ps[k].tile])]
           w2 == IF action = "topology" THEN sculpt_topology_update(w1, c, g[k])
                 ELSE do_brush_action(w1, c, g[k])
       IN RunPasses(w2, c, ps, k + 1, g, action)

\* sculpt_restore_mesh
sculpt_restore_mesh(w, c) ==
  IF c.brush.tool = "ROTATE" \/ c.brush.anchored THEN restore_from_undo_step(w, c) ELSE w

\* the update type of the flush at the end of sculpt_stroke_update_step
StepUpdateType(c) ==
  IF c.brush.tool = "MASK" THEN "Mask"
  ELSE IF SCULPT_tool_is_paint(c.brush.tool)
    THEN (IF c.brush.image_paint THEN "Image" ELSE "Color")
  ELSE "Position"

\* sculpt_stroke_update_step with the symmetry passes before the variant update
sculpt_stroke_update_step_late_variants(w, c, g) ==
  LET w1 == sculpt_restore_mesh(w, c)
      w2 == IF stroke_is_dyntopo(w1, c)
              THEN RunPasses(w1, c, StrokePasses(c), 1, g, "topology") ELSE w1
      w3 == RunPasses(w2, c, StrokePasses(c), 1, g, "brush")
      w4 == Log(w3, [ev |-> "variants"])
      w5 == [w4 EXCEPT !.ss.cache[1].first_time = FALSE, !.hist.steps = @ + 1]
  IN flush_update_step(w5, c, StepUpdateType(c))

\* sculpt_stroke_update_step
sculpt_stroke_update_step(w, c, g) ==
  LET w0 == Log(w, [ev |-> "variants"])
      w1 == sculpt_restore_mesh(w0, c)
      w2 == IF stroke_is_dyntopo(w1, c)
              THEN RunPasses(w1, c, StrokePasses(c), 1, g, "topology") ELSE w1
      w3 == RunPasses(w2, c, StrokePasses(c), 1, g, "brush")
      w4 == [w3 EXCEPT !.ss.cache[1].first_time = FALSE, !.hist.steps = @ + 1]
  IN flush_update_step(w4, c, StepUpdateType(c))

\* the update type of the flush of sculpt_stroke_done
DoneUpdateType(c) ==
  IF c.brush.tool = "MASK" THEN "Mask"
  ELSE IF c.brush.tool = "PAINT"
    THEN (IF c.brush.image_paint THEN "Image" ELSE "Color")
  ELSE "Position"

\* sculpt_stroke_done that keeps ss.cache
sculpt_stroke_done_keep_cache(w, c) ==
  IF w.ss.cache = NullPtr THEN w
  ELSE [flush_update_done(undo_push_end(w), DoneUpdateType(c)) EXCEPT !.hist.ended = "done"]

\* sculpt_stroke_done
sculpt_stroke_done(w, c) ==
  IF w.ss.cache = NullPtr THEN w
  ELSE [flush_update_done(undo_push_end(DeleteCache(w)), DoneUpdateType(c))
          EXCEPT !.hist.ended = "done"]

\* paint_stroke_cancel: ends the stroke through its done callback when the
\* stroke had started
paint_stroke_cancel(w, c, started) ==
  IF started THEN sculpt_stroke_done(w, c) ELSE w

\* sculpt_brush_stroke_cancel
sculpt_brush_stroke_cancel(w, c, started) ==
  LET w1 == IF w.ss.cache # NullPtr /\ ~stroke_is_dyntopo(w, c)
              THEN restore_from_undo_step(w, c) ELSE w
      w2 == paint_stroke_cancel(w1, c, started)
  IN [DeleteCache(w2) EXCEPT !.hist.ended = "cancel"]


(***************************************************************************)
(* Brush stroke operator.                                                  *)
(***************************************************************************)

\* SCULPT_handles_colors_report: the error reported, NONE when colors are handled
SCULPT_handles_colors_report(c) ==
  CASE c.pbvh_type = "Mesh" -> NONE
    [] c.pbvh_type = "BMesh" -> "Not supported in dynamic topology mode"
    [] c.pbvh_type = "Grids" -> "Not supported in multiresolution mode"

SCULPT_tool_is_attribute_only(tool) == tool \in {"MASK", "PAINT", "SMEAR", "DRAW_FACE_SETS"}

Result(w, ret, started) == [w |-> w, ret |-> ret, started |-> started]

\* sculpt_brush_stroke_invoke; its call of the modal callback handles the press
\* event, which starts the stroke when the cursor is over the mesh
sculpt_brush_stroke_invoke(w, c, visible, locked, ignore_background_click, over) ==
  IF ~visible THEN Result([w EXCEPT !.hist.report = NONE], "CANCELLED", FALSE)
  ELSE IF SCULPT_tool_is_paint(c.brush.tool) /\ SCULPT_handles_colors_report(c) # NONE
    THEN Result([w EXCEPT !.hist.report = SCULPT_handles_colors_report(c)], "CANCELLED", FALSE)
  ELSE IF ~SCULPT_tool_is_attribute_only(c.brush.tool) /\ locked
    THEN Result([w EXCEPT !.hist.report = "shape key is locked"], "CANCELLED", FALSE)
  ELSE IF ignore_background_click /\ ~over
    THEN Result([w EXCEPT !.hist.report = NONE], "PASS_THROUGH", FALSE)
  ELSE IF over
    THEN Result(sculpt_stroke_test_start([w EXCEPT !.hist.report = NONE], c),
                "RUNNING_MODAL", TRUE)
  ELSE Result([w EXCEPT !.hist.report = NONE], "RUNNING_MODAL", FALSE)

\* sculpt_brush_stroke_exec up to the first callback of paint_stroke_exec: the
\* stroke is created and started (op->flag has no OP_IS_INVOKE, so
\* sculpt_stroke_test_start always starts it); paint_stroke_exec then calls
\* sculpt_stroke_update_step once per stored sample and sculpt_stroke_done
sculpt_brush_stroke_exec(w, c) ==
  Result(sculpt_stroke_test_start([w EXCEPT !.hist.report = NONE], c), "FINISHED", TRUE)

(***************************************************************************)
(* Mesh filter operator.                                                   *)
(***************************************************************************)

\* filter::cache_init: the cache with all nodes, which get a Position undo node
filter_cache_init(w, c) ==
  undo_push_nodes([w EXCEPT !.ss.filter_cache = <<[nodes |-> Nodes, iteration_count |-> 0]>>],
                  Nodes, "Position")

\* sculpt_mesh_filter_start
sculpt_mesh_filter_start(w, c, visible, locked, deform_axis) ==
  IF ~visible THEN Result([w EXCEPT !.hist.report = NONE], "CANCELLED", FALSE)
  ELSE IF locked
    THEN Result([w EXCEPT !.hist.report = "shape key is locked"], "CANCELLED", FALSE)
  ELSE IF deform_axis = 0 THEN Result([w EXCEPT !.hist.report = NONE], "CANCELLED", FALSE)
  ELSE Result(filter_cache_init(
                undo_push_begin([w EXCEPT !.hist.report = NONE,
                                          !.hist.trace = <<>>,
                                          !.hist.orig = w.mesh,
                                          !.hist.changed = [t \in UndoTypes |-> {}],
                                          !.hist.ended = NONE,
                                          !.hist.flushed = NONE]), c),
              "PASS_THROUGH", TRUE)

\* sculpt_mesh_filter_apply
sculpt_mesh_filter_apply(w, c) ==
  LET nodes == w.ss.filter_cache[1].nodes
      w1 == BKE_pbvh_node_mark_positions_update(ChangeData(w, nodes, "Position"), nodes)
      w2 == [w1 EXCEPT !.ss.filter_cache[1].iteration_count = @ + 1, !.hist.steps = @ + 1]
  IN flush_update_step(w2, c, "Position")

\* sculpt_mesh_filter_end
sculpt_mesh_filter_end(w) ==
  flush_update_done([w EXCEPT !.ss.filter_cache = NullPtr], "Position")

\* sculpt_mesh_filter_cancel
sculpt_mesh_filter_cancel(w) == update_bounds(restore_position_from_undo_step(w))

\* sculpt_mesh_filter_modal, event FILTER_MESH_MODAL_CANCEL
sculpt_mesh_filter_modal_cancel(w) ==
  [sculpt_mesh_filter_end(undo_push_end(sculpt_mesh_filter_cancel(w)))
     EXCEPT !.hist.ended = "filter_cancel"]

\* sculpt_mesh_filter_modal, event FILTER_MESH_MODAL_CONFIRM
sculpt_mesh_filter_modal_confirm(w) ==
  [sculpt_mesh_filter_end(undo_push_end(w)) EXCEPT !.hist.ended = "filter_confirm"]

RECURSIVE FilterIterations(_, _, _)
FilterIterations(w, c, k) ==
  IF k = 0 THEN w ELSE FilterIterations(sculpt_mesh_filter_apply(w, c), c, k - 1)

\* sculpt_mesh_filter_exec
sculpt_mesh_filter_exec(w, c, visible, locked, deform_axis, iterations) ==
  LET r == sculpt_mesh_filter_start(w, c, visible, locked, deform_axis)
  IN IF r.ret = "PASS_THROUGH"
       THEN Result([sculpt_mesh_filter_end(FilterIterations(r.w, c, iterations))
                      EXCEPT !.hist.ended = "filter_exec"], "FINISHED", FALSE)
       ELSE r

(***************************************************************************)
(* Specification of the operators.                                         *)
(***************************************************************************)

SetWorld(w) ==
  /\ ss' = w.ss
  /\ mesh' = w.mesh
  /\ pbvh' = w.pbvh
  /\ undo' = w.undo
  /\ hist' = w.hist

\* the session is idle and has run no operator yet: a behaviour follows the
\* session through one run of the brush stroke or of the mesh filter
NoOperatorYet == op.pc = "idle" /\ op.ret = NONE

GathersOf(c) == {g \in Gathers : c.symm = 0 => g[2] = {}}

Init ==
  /\ symm = 0
  /\ radial_symm = <<1, 1, 1>>
  /\ tile = StrokeTile
  /\ passes = <<>>
  /\ op = [pc |-> "idle", started |-> FALSE, ret |-> NONE]
  /\ cfg \in Configs
  /\ ss = InitWorld.ss
  /\ mesh = InitWorld.mesh
  /\ pbvh = InitWorld.pbvh
  /\ undo = InitWorld.undo
  /\ hist = InitWorld.hist
  /\ call = NoCall

BrushStrokeInvoke ==
  /\ NoOperatorYet
  /\ \E visible \in BOOLEAN, locked \in BOOLEAN, ignore \in BOOLEAN, over \in BOOLEAN :
       LET r == sculpt_brush_stroke_invoke(World, cfg, visible, locked, ignore, over)
       IN /\ SetWorld(r.w)
          /\ op' = [pc |-> IF r.ret = "RUNNING_MODAL" THEN "stroke" ELSE "idle",
                    started |-> r.started, ret |-> r.ret]
  /\ UNCHANGED <<cfg, symmVars, call>>

\* a modal event over the mesh before the stroke has started
BrushStrokeModalStart ==
  /\ op.pc = "stroke" /\ ~op.started
  /\ SetWorld(sculpt_stroke_test_start(World, cfg))
  /\ op' = [op EXCEPT !.started = TRUE]
  /\ UNCHANGED <<cfg, symmVars, call>>

\* a modal event that gives one input sample to the started stroke
BrushStrokeModalStep ==
  /\ op.pc = "stroke" /\ op.started
  /\ hist.steps < MaxSteps
  /\ \E g \in GathersOf(cfg) : SetWorld(sculpt_stroke_update_step(World, cfg, g))
  /\ UNCHANGED <<op, cfg, symmVars, call>>

\* the release event: the stroke ends through the done callback
BrushStrokeModalRelease ==
  /\ op.pc = "stroke"
  /\ SetWorld(IF op.started THEN sculpt_stroke_done(World, cfg) ELSE World)
  /\ op' = [pc |-> "idle", started |-> FALSE, ret |-> "FINISHED"]
  /\ UNCHANGED <<cfg, symmVars, call>>

BrushStrokeCancel ==
  /\ op.pc = "stroke"
  /\ SetWorld(sculpt_brush_stroke_cancel(World, cfg, op.started))
  /\ op' = [pc |-> "idle", started |-> FALSE, ret |-> "CANCELLED"]
  /\ UNCHANGED <<cfg, symmVars, call>>

BrushStrokeExec ==
  /\ NoOperatorYet
  /\ LET r == sculpt_brush_stroke_exec(World, cfg)
     IN /\ SetWorld(r.w)
        /\ op' = [pc |-> "exec", started |-> r.started, ret |-> r.ret]
  /\ UNCHANGED <<cfg, symmVars, call>>

\* paint_stroke_exec plays one stored sample
BrushStrokeExecStep ==
  /\ op.pc = "exec"
  /\ hist.steps < MaxSteps
  /\ \E g \in GathersOf(cfg) : SetWorld(sculpt_stroke_update_step(World, cfg, g))
  /\ UNCHANGED <<op, cfg, symmVars, call>>

\* paint_stroke_exec ends the stroke
BrushStrokeExecDone ==
  /\ op.pc = "exec"
  /\ SetWorld(sculpt_stroke_done(World, cfg))
  /\ op' = [pc |-> "idle", started |-> FALSE, ret |-> "FINISHED"]
  /\ UNCHANGED <<cfg, symmVars, call>>

MeshFilterInvoke ==
  /\ NoOperatorYet
  /\ \E visible \in BOOLEAN, locked \in BOOLEAN, deform_axis \in {0, 7} :
       LET r == sculpt_mesh_filter_start(World, cfg, visible, locked, deform_axis)
       IN /\ SetWorld(r.w)
          /\ op' = [pc |-> IF r.ret = "PASS_THROUGH" THEN "filter" ELSE "idle",
                    started |-> r.started,
                    ret |-> IF r.ret = "PASS_THROUGH" THEN "RUNNING_MODAL" ELSE r.ret]
  /\ UNCHANGED <<cfg, symmVars, call>>

MeshFilterModalMove ==
  /\ op.pc = "filter"
  /\ hist.steps < MaxSteps
  /\ SetWorld(sculpt_mesh_filter_apply(World, cfg))
  /\ UNCHANGED <<op, cfg, symmVars, call>>

MeshFilterModalConfirm ==
  /\ op.pc = "filter"
  /\ SetWorld(sculpt_mesh_filter_modal_confirm(World))
  /\ op' = [pc |-> "idle", started |-> FALSE, ret |-> "FINISHED"]
  /\ UNCHANGED <<cfg, symmVars, call>>

MeshFilterModalCancel ==
  /\ op.pc = "filter"
  /\ SetWorld(sculpt_mesh_filter_modal_cancel(World))
  /\ op' = [pc |-> "idle", started |-> FALSE, ret |-> "CANCELLED"]
  /\ UNCHANGED <<cfg, symmVars, call>>

MeshFilterExec ==
  /\ NoOperatorYet
  /\ \E visible \in BOOLEAN, locked \in BOOLEAN, deform_axis \in {0, 7},
        iterations \in 0..(MaxSteps - hist.steps) :
       LET r == sculpt_mesh_filter_exec(World, cfg, visible, locked, deform_axis, iterations)
       IN /\ SetWorld(r.w)
          /\ op' = [pc |-> "idle", started |-> FALSE, ret |-> r.ret]
  /\ UNCHANGED <<cfg, symmVars, call>>

\* a tool or operator asks for the fake neighbors
FakeNeighborsEnsure ==
  /\ op.pc = "idle" \/ op.started
  /\ \E max_dist \in MaxDists : SetWorld(SCULPT_fake_neighbors_ensure(World, max_dist))
  /\ UNCHANGED <<op, cfg, symmVars, call>>

Next ==
  \/ BrushStrokeInvoke
  \/ BrushStrokeModalStart
  \/ BrushStrokeModalStep
  \/ BrushStrokeModalRelease
  \/ BrushStrokeCancel
  \/ BrushStrokeExec
  \/ BrushStrokeExecStep
  \/ BrushStrokeExecDone
  \/ MeshFilterInvoke
  \/ MeshFilterModalMove
  \/ MeshFilterModalConfirm
  \/ MeshFilterModalCancel
  \/ MeshFilterExec
  \/ FakeNeighborsEnsure

Spec == Init /\ [][Next]_vars


(***************************************************************************)
(* Specification of the symmetry driver alone: the inputs are drawn by     *)
(* InitSymm and one step runs do_symmetrical_brush_actions.                *)
(***************************************************************************)

\* sd.radial_symm[] values: the rotation steps are whole quarter turns
RadialCounts == {1, 2, 4}

TileConfigs ==
  { [flags |-> f, step |-> s, radius |-> r, true_location |-> l] :
      f \in SUBSET {0, 1, 2}, s \in {0, 2}, r \in {0, 1},
      l \in {<<0, 0, 0>>, <<3, 0, 0>>, <<1, 2, 0>>} }

InitSymm ==
  /\ symm \in 0..7
  /\ radial_symm \in [1..3 -> RadialCounts]
  /\ tile \in TileConfigs
  /\ passes = <<>>
  /\ op = [pc |-> "idle", started |-> FALSE, ret |-> NONE]
  /\ cfg = CHOOSE c \in Configs : c.symm = 0
  /\ ss = InitWorld.ss
  /\ mesh = InitWorld.mesh
  /\ pbvh = InitWorld.pbvh
  /\ undo = InitWorld.undo
  /\ hist = InitWorld.hist
  /\ call = NoCall

SymmetricalBrushActions ==
  /\ passes = <<>>
  /\ passes' = do_symmetrical_brush_actions(tile, radial_symm, symm)
  /\ UNCHANGED <<symm, radial_symm, tile, strokeVars, call>>

NextSymm == SymmetricalBrushActions

SpecSymm == InitSymm /\ [][NextSymm]_vars


(***************************************************************************)
(* Properties of the symmetry driver (SpecSymm).                           *)
(***************************************************************************)

\* the mirror combinations that ran, and the passes that start a mirror
\* combination (no rotation, un-tiled)
MirrorsRun == {passes[k].mirror : k \in 1..Len(passes)}
MirrorPasses == {k \in 1..Len(passes) : passes[k].radial = 0 /\ passes[k].tile = 0}

NoRadial == radial_symm = <<1, 1, 1>>

\* C1 as stated: with symmetry bitmask 7 and all radial counts 1, one step
\* runs exactly the mirror combinations {0, 1, 2, 4}, that is 4 mirror passes
C1_OnlySingleAxisMirrors ==
  (symm = 7 /\ NoRadial /\ passes # <<>>) =>
    (MirrorsRun = {0, 1, 2, 4} /\ Cardinality(MirrorPasses) = 4)

\* C1 amended: with symmetry bitmask 7 and all radial counts 1, one step runs
\* all eight mirror combinations 0..7, each exactly once
C1_AllMirrorCombinations ==
  (symm = 7 /\ NoRadial /\ passes # <<>>) =>
    (MirrorsRun = 0..7 /\ Cardinality(MirrorPasses) = 8
     /\ \A m \in 0..7 : Cardinality({k \in MirrorPasses : passes[k].mirror = m}) = 1)

C1_Witness == symm = 7 /\ NoRadial /\ Len(passes) >= 8

AxisRank(axis) == CASE axis = NONE -> 0 [] axis = "X" -> 1 [] axis = "Y" -> 2 [] axis = "Z" -> 3

\* position of a do_tiled call in the enumeration order of a step
BlockKey(p) == p.mirror * 100 + AxisRank(p.axis) * 10 + p.radial

\* C2: within one step every do_tiled call runs its un-tiled pass (tile 0)
\* first and exactly once, the tiled repeats follow it in order, and for every
\* mirror combination the un-rotated call runs before all its radial calls
C2_UntiledAndUnrotatedFirst ==
  \A k \in 1..Len(passes) :
    LET p == passes[k]
    IN /\ (p.radial = 0) <=> (p.axis = NONE)
       /\ IF k = 1 \/ BlockKey(passes[k - 1]) # BlockKey(p)
            THEN /\ p.tile = 0
                 /\ (k > 1 => BlockKey(passes[k - 1]) < BlockKey(p))
                 /\ (k = 1 \/ passes[k - 1].mirror # p.mirror) => p.radial = 0
            ELSE p.tile = passes[k - 1].tile + 1

C2_Witness ==
  \E k \in 1..Len(passes) : passes[k].mirror > 0 /\ passes[k].radial > 1 /\ passes[k].tile > 1


(***************************************************************************)
(* Properties of the operators (Spec).                                     *)
(***************************************************************************)

TraceEvents(ev) == {k \in 1..Len(hist.trace) : hist.trace[k].ev = ev}

\* passes logged by one step: the topology passes of a dyntopo stroke and the
\* brush passes
PassesPerStep ==
  Len(StrokePasses(cfg))
  * (IF cfg.pbvh_type = "BMesh" /\ ~cfg.brush.smooth /\ ~cfg.brush.anchored
        /\ SCULPT_TOOL_HAS_DYNTOPO(cfg.brush.tool) THEN 2 ELSE 1)

\* C3: the stroke cache goes through invariants, then per step one variant
\* update followed by the passes of the step, then destruction: the invariant
\* update is the first event of a stroke and happens once, every step has
\* exactly one variant update that precedes all passes of the step, nothing
\* follows the destruction, and the cache exists exactly between the
\* invariant update and the destruction
C3_CacheLifecycle ==
  LET t == hist.trace
  IN /\ \A k \in 1..Len(t) :
          /\ (t[k].ev = "invariants") <=> (k = 1)
          /\ t[k].ev = "destroy" => k = Len(t)
          /\ t[k].ev = "pass" => t[k - 1].ev \in {"variants", "pass"}
          /\ t[k].ev = "variants" =>
               /\ t[k - 1].ev \in {"invariants", "pass"}
               /\ k + PassesPerStep <= Len(t)
               /\ \A j \in 1..PassesPerStep : t[k + j].ev = "pass"
               /\ k + PassesPerStep < Len(t) =>
                    t[k + PassesPerStep + 1].ev \in {"variants", "destroy"}
     /\ t # <<>> => Cardinality(TraceEvents("variants")) = hist.steps
     /\ (ss.cache # NullPtr) <=> (t # <<>> /\ t[Len(t)].ev # "destroy")

C3_Witness ==
  /\ Cardinality(TraceEvents("variants")) = 2
  /\ Cardinality(TraceEvents("pass")) >= 4
  /\ TraceEvents("destroy") # {}

\* C4: at most one stroke cache is alive, ss.cache refers to it while it is
\* alive, and ss.cache is null whenever no stroke runs, in particular after a
\* stroke ended or was cancelled
C4_SingleCache ==
  /\ hist.live.cache = (IF ss.cache = NullPtr THEN 0 ELSE 1)
  /\ Cardinality(TraceEvents("invariants")) <= 1
  /\ (op.pc = "idle" \/ ~op.started) => ss.cache = NullPtr
  /\ hist.ended \in {"done", "cancel"} => ss.cache = NullPtr

C4_Witness ==
  /\ hist.ended = "cancel"
  /\ TraceEvents("invariants") # {}
  /\ ss.cache = NullPtr

\* the stroke of the configuration is one that changes the topology
DyntopoStroke ==
  /\ cfg.pbvh_type = "BMesh"
  /\ ~cfg.brush.smooth
  /\ ~cfg.brush.anchored
  /\ SCULPT_TOOL_HAS_DYNTOPO(cfg.brush.tool)

\* C5: after the cancel of a stroke that does not change the topology, every
\* node whose positions the stroke changed has its pre-stroke positions
C5_CancelRestoresPositions ==
  (hist.ended = "cancel" /\ ~DyntopoStroke) =>
    \A n \in hist.changed["Position"] : mesh["Position"][n] = hist.orig["Position"][n]

\* C6: after a brush stroke cancel or a mesh filter cancel, every node whose
\* positions were restored has bounds computed from the restored positions
C6_NoStaleBoundsAfterCancel ==
  (hist.ended \in {"cancel", "filter_cancel"} /\ ~DyntopoStroke) =>
    \A n \in hist.changed["Position"] :
      mesh["Position"][n] = hist.orig["Position"][n] =>
        pbvh.bounds[n] = BoundsOf(mesh["Position"][n])

\* C7: during and after a stroke or filter, every node has for every kind of
\* data at most one snapshot, the snapshot holds the data of the node from
\* before the operation, and every node whose data the operation changed has
\* the one snapshot of that kind
C7_OneOriginalSnapshot ==
  \A n \in Nodes, t \in UndoTypes :
    /\ hist.captures[n][t] <= 1
    /\ (undo.nodes[n][t] # NoSnapshot) <=> (hist.captures[n][t] = 1)
    /\ undo.nodes[n][t] # NoSnapshot => undo.nodes[n][t] = hist.orig[t][n]
    /\ n \in hist.changed[t] => hist.captures[n][t] = 1

\* the fake neighbors the current positions give for the current max distance
FakeNeighborsCurrent ==
  ss.fake_neighbors.fake_neighbor_index # NullPtr =>
    ss.fake_neighbors.fake_neighbor_index[1]
      = BuildFakeNeighbors(mesh["Position"], ss.fake_neighbors.current_max_distance)

\* C8 as stated: whenever positions have changed (after a brush step, a
\* restore or cancel, a filter iteration), no fake-neighbor table built from
\* the old positions is left for a later ensure with the same max distance
C8_NoStaleFakeNeighbors == FakeNeighborsCurrent

\* C8 amended: once a stroke or filter has ended with a Position flush, the
\* fake-neighbor table is the one the final positions give (it was freed by
\* the flush and any table present was built after it)
C8_FreshAfterPositionFlush ==
  (op.pc = "idle" /\ hist.flushed = "Position") => FakeNeighborsCurrent

C8_Witness ==
  /\ op.pc = "idle"
  /\ hist.flushed = "Position"
  /\ hist.changed["Position"] # {}
  /\ ss.fake_neighbors.fake_neighbor_index # NullPtr
  /\ ss.fake_neighbors.fake_neighbor_index[1]
       # BuildFakeNeighbors(hist.orig["Position"], ss.fake_neighbors.current_max_distance)

\* C9: with a color tool on a dyntopo or multires pbvh, no entry path of the
\* brush stroke operator constructs a stroke cache: invoke and exec both stop
\* before sculpt_update_cache_invariants runs
C9_ColorStrokeBlocked ==
  (SCULPT_tool_is_paint(cfg.brush.tool) /\ cfg.pbvh_type # "Mesh") =>
    (ss.cache = NullPtr /\ TraceEvents("invariants") = {})

\* C10: the dial, the auto-masking cache and the cloth simulation of a stroke
\* cache live exactly as long as the cache holds them, and once a stroke that
\* constructed a cache has ended or was cancelled, the cache and all three are
\* freed
C10_CacheDestroyed ==
  /\ ss.cache # NullPtr =>
       /\ hist.live.dial = (IF ss.cache[1].dial # NULL THEN 1 ELSE 0)
       /\ hist.live.automasking = (IF ss.cache[1].automasking # NULL THEN 1 ELSE 0)
       /\ hist.live.cloth_sim = (IF ss.cache[1].cloth_sim # NULL THEN 1 ELSE 0)
  /\ ss.cache = NullPtr =>
       hist.live = [cache |-> 0, dial |-> 0, automasking |-> 0, cloth_sim |-> 0]
  /\ (TraceEvents("invariants") # {} /\ op.pc = "idle") => TraceEvents("destroy") # {}

C10_Witness ==
  /\ hist.ended = "cancel"
  /\ cfg.brush.tool = "ROTATE" /\ cfg.brush.cloth /\ cfg.automasking
  /\ hist.steps > 0
  /\ hist.changed["Position"] # {}
  /\ TraceEvents("destroy") # {}


(***************************************************************************)
(* Specification of the steps of a stroke and their flush, with and        *)
(* without an active shape key.                                            *)
(***************************************************************************)

InitFlush ==
  /\ symm = 0
  /\ radial_symm = <<1, 1, 1>>
  /\ tile = StrokeTile
  /\ passes = <<>>
  /\ op = [pc |-> "idle", started |-> FALSE, ret |-> NONE]
  /\ cfg \in FlushConfigs
  /\ ss = InitWorld.ss
  /\ mesh = InitWorld.mesh
  /\ pbvh = InitWorld.pbvh
  /\ undo = InitWorld.undo
  /\ hist = InitWorld.hist
  /\ call = NoCall

\* the stroke starts
FlushStrokeStart ==
  /\ op.pc = "idle" /\ op.ret = NONE
  /\ SetWorld(sculpt_stroke_test_start(World, cfg))
  /\ op' = [pc |-> "stroke", started |-> TRUE, ret |-> "RUNNING_MODAL"]
  /\ UNCHANGED <<cfg, symmVars, call>>

\* one input sample: sculpt_stroke_update_step, which ends with the flush
FlushStrokeStep ==
  /\ op.pc = "stroke" /\ op.started
  /\ hist.steps < MaxSteps
  /\ \E g \in GathersOf(cfg) : SetWorld(sculpt_stroke_update_step(World, cfg, g))
  /\ UNCHANGED <<op, cfg, symmVars, call>>

NextFlush == FlushStrokeStart \/ FlushStrokeStep

SpecFlush == InitFlush /\ [][NextFlush]_vars

\* C11 as stated: the flush of every step of a position-changing stroke
\* issues the positions-changed notification exactly once, whatever the pbvh
\* type and the configuration
C11_NotifiedOncePerFlush ==
  hist.step_flush.type = "Position" => hist.step_flush.tagged = 1

\* C11 amended: the flush of a step issues the positions-changed notification
\* once, whatever number of nodes changed, when the update type is Position,
\* the pbvh is of type Mesh and no shape key is active, and not at all
\* otherwise
C11_NotifiedOnceOnMesh ==
  hist.step_flush.type # NONE =>
    hist.step_flush.tagged =
      (IF hist.step_flush.type = "Position" /\ cfg.pbvh_type = "Mesh" /\ ~cfg.shapekey_active
         THEN 1 ELSE 0)

C11_Witness ==
  /\ hist.step_flush.type = "Position"
  /\ hist.step_flush.tagged = 1
  /\ hist.changed["Position"] = Nodes
  /\ hist.steps = MaxSteps


(***************************************************************************)
(* Passes that gather no nodes (Spec).                                     *)
(***************************************************************************)

\* the state do_brush_action leaves when the pass gathers no nodes
EmptyPass == do_brush_action(World, cfg, {})

IdleSession ==
  /\ symm = 0
  /\ radial_symm = <<1, 1, 1>>
  /\ tile = StrokeTile
  /\ passes = <<>>
  /\ op = [pc |-> "idle", started |-> FALSE, ret |-> NONE]
  /\ cfg = CHOOSE c \in Configs : c.symm = 0
  /\ ss = InitWorld.ss
  /\ mesh = InitWorld.mesh
  /\ pbvh = InitWorld.pbvh
  /\ undo = InitWorld.undo
  /\ hist = InitWorld.hist

Abs(x) == IF x < 0 THEN -x ELSE x

\* Exact rational arithmetic; each operator binds its operands to their
\* values once (x \in {a}) before using them.
RECURSIVE GCD(_, _)
GCD(a, b) ==
  CHOOSE r \in { IF y = 0 THEN x ELSE GCD(y, x % y) : x \in {a}, y \in {b} } : TRUE

\* the fraction n / d in lowest terms with a positive denominator
Frac(n, d) ==
  CHOOSE r \in { [num |-> (IF t[2] < 0 THEN -1 ELSE 1) * (t[1] \div t[3]),
                  den |-> (IF t[2] < 0 THEN -1 ELSE 1) * (t[2] \div t[3])] :
                   t \in { <<x, y, GCD(Abs(x), Abs(y))>> : x \in {n}, y \in {d} } } : TRUE

FracInt(n) == [num |-> n, den |-> 1]
FracAdd(a, b) ==
  CHOOSE r \in { Frac(x.num * y.den + y.num * x.den, x.den * y.den) :
                   x \in {a}, y \in {b} } : TRUE
FracSub(a, b) ==
  CHOOSE r \in { Frac(x.num * y.den - y.num * x.den, x.den * y.den) :
                   x \in {a}, y \in {b} } : TRUE
FracMul(a, b) ==
  CHOOSE r \in { Frac(x.num * y.num, x.den * y.den) :
                   x \in {a}, y \in {b} } : TRUE
FracDiv(a, b) ==
  CHOOSE r \in { Frac(x.num * y.den, x.den * y.num) :
                   x \in {a}, y \in {b} } : TRUE
FracLess(a, b) == \E x \in {a}, y \in {b} : x.num * y.den < y.num * x.den
FracLeq(a, b) == \E x \in {a}, y \in {b} : x.num * y.den <= y.num * x.den


(***************************************************************************)
(* Hardness: sculpt_apply_hardness (one vertex) and                        *)
(* apply_hardness_to_distances (array).                                    *)
(***************************************************************************)

MaxRadius == 3

Radii == 1..MaxRadius

\* distances up to and beyond the radius
Distances == 0..(MaxRadius + 1)

\* brush hardness values in [0, 1]
Hardnesses == {Frac(0, 1), Frac(1, 4), Frac(1, 2), Frac(3, 4), Frac(1, 1)}

\* sculpt_apply_hardness without the subtraction of the hardness
sculpt_apply_hardness_no_offset(radius, hardness, input_len) ==
  LET p == FracDiv(input_len, radius)
  IN IF FracLess(p, hardness) THEN FracInt(0)
     ELSE IF hardness = FracInt(1) THEN radius
     ELSE FracMul(FracDiv(p, FracSub(FracInt(1), hardness)), radius)

\* sculpt_apply_hardness(cache, input_len) with cache.radius and
\* cache.paint_brush.hardness
sculpt_apply_hardness(radius, hardness, input_len) ==
  LET p == FracDiv(input_len, radius)
  IN IF FracLess(p, hardness) THEN FracInt(0)
     ELSE IF hardness = FracInt(1) THEN radius
     ELSE FracMul(FracDiv(FracSub(p, hardness), FracSub(FracInt(1), hardness)), radius)

\* apply_hardness_to_distances
apply_hardness_to_distances(radius, hardness, distances) ==
  IF hardness = FracInt(0) THEN distances
  ELSE IF hardness = FracInt(1) THEN [i \in DOMAIN distances |-> FracInt(0)]
  ELSE LET threshold == FracMul(hardness, radius)
           radius_inv == FracDiv(FracInt(1), radius)
           hardness_inv_rcp == FracDiv(FracInt(1), FracSub(FracInt(1), hardness))
       IN [i \in DOMAIN distances |->
             IF FracLess(distances[i], threshold) THEN FracInt(0)
             ELSE LET radius_factor ==
                        FracMul(FracSub(FracMul(distances[i], radius_inv), hardness),
                                hardness_inv_rcp)
                  IN FracMul(radius_factor, radius)]

InitHardness ==
  /\ IdleSession
  /\ \E r \in Radii, h \in Hardnesses, d \in [1..2 -> Distances] :
       call = [fn |-> "hardness", radius |-> FracInt(r), hardness |-> h,
               distances |-> [i \in 1..2 |-> FracInt(d[i])]]

\* both implementations are applied to the same distances
ApplyHardness ==
  /\ call.fn = "hardness"
  /\ call' = [fn |-> "hardness_done", radius |-> call.radius, hardness |-> call.hardness,
              distances |-> call.distances,
              vertex |-> [i \in 1..2 |->
                            sculpt_apply_hardness(call.radius, call.hardness, call.distances[i])],
              array |-> apply_hardness_to_distances(call.radius, call.hardness,
                                                    call.distances)]
  /\ UNCHANGED <<symmVars, strokeVars>>

NextHardness == ApplyHardness

SpecHardness == InitHardness /\ [][NextHardness]_vars

\* C13: with hardness 0 both implementations return the distance, and with
\* hardness 1 both return 0 for every distance up to and including the radius
C13_HardnessEndpoints ==
  call.fn = "hardness_done" =>
    \A i \in 1..2 :
      /\ call.hardness = FracInt(0) =>
           (call.vertex[i] = call.distances[i] /\ call.array[i] = call.distances[i])
      /\ (call.hardness = FracInt(1) /\ FracLeq(call.distances[i], call.radius)) =>
           (call.vertex[i] = FracInt(0) /\ call.array[i] = FracInt(0))

\* the value the linear remap gives between hardness * radius and radius
HardnessRemap(radius, hardness, d) ==
  Frac(d.num * hardness.den - hardness.num * radius.num * d.den,
       d.den * (hardness.den - hardness.num))

\* C19: for 0 < hardness < 1 both implementations map a distance below
\* hardness * radius to 0 and a distance d in [hardness * radius, radius] to
\* (d / radius - hardness) / (1 - hardness) * radius, which lies in
\* [0, radius], is 0 at hardness * radius and radius at radius
C19_HardnessRemap ==
  (call.fn = "hardness_done" /\ FracLess(FracInt(0), call.hardness)
     /\ FracLess(call.hardness, FracInt(1))) =>
    \A i \in 1..2 :
      LET d == call.distances[i]
          threshold == FracMul(call.hardness, call.radius)
      IN /\ FracLess(d, threshold) =>
              (call.vertex[i] = FracInt(0) /\ call.array[i] = FracInt(0))
         /\ (FracLeq(threshold, d) /\ FracLeq(d, call.radius)) =>
              /\ call.vertex[i] = HardnessRemap(call.radius, call.hardness, d)
              /\ call.array[i] = call.vertex[i]
              /\ FracLeq(FracInt(0), call.vertex[i]) /\ FracLeq(call.vertex[i], call.radius)
              /\ d = threshold => call.vertex[i] = FracInt(0)
              /\ d = call.radius => call.vertex[i] = call.radius

\* radius 2, hardness 0.5: distance 1 gives 0, distance 2 gives 2
C19_Witness ==
  /\ call.fn = "hardness_done"
  /\ call.radius = FracInt(2) /\ call.hardness = Frac(1, 2)
  /\ call.distances = <<FracInt(1), FracInt(2)>>
  /\ call.vertex = <<FracInt(0), FracInt(2)>>
  /\ call.array = <<FracInt(0), FracInt(2)>>


(***************************************************************************)
(* Factor pipeline: visibility/mask seed, front face, distance falloff,    *)
(* region clip, and the per-vertex brush test.                             *)
(***************************************************************************)

\* unit normals: facing the view, facing away, tilted
UnitNormals ==
  { <<FracInt(0), FracInt(0), FracInt(1)>>,
    <<FracInt(0), FracInt(0), FracInt(-1)>>,
    <<Frac(3, 5), FracInt(0), Frac(4, 5)>> }

\* vertex positions at whole distances from the brush location
VertPositions == { <<1, 0, 0>>, <<0, -2, 0>>, <<-1, 0, 0>> }

\* .sculpt_mask values
MaskValues == { FracInt(0), Frac(1, 2) }

FactorVerts ==
  [co : VertPositions, no : UnitNormals, mask : MaskValues, hide : BOOLEAN]

\* the region view: clipping flag, and the clip plane through the origin
\* (points with a negative coordinate on the axis are clipped)
RegionViews ==
  { [clipping |-> FALSE, axis |-> 1], [clipping |-> TRUE, axis |-> 1],
    [clipping |-> TRUE, axis |-> 2] }

dot_v3(a, b) ==
  FracAdd(FracAdd(FracMul(a[1], b[1]), FracMul(a[2], b[2])), FracMul(a[3], b[3]))

FracMax(a, b) == IF FracLess(a, b) THEN b ELSE a

\* the square root of a perfect square
SqrtExact(n) == CHOOSE k \in 0..n : k * k = n

len_squared_v3v3(a, b) ==
  (a[1] - b[1]) * (a[1] - b[1]) + (a[2] - b[2]) * (a[2] - b[2])
    + (a[3] - b[3]) * (a[3] - b[3])

\* ED_view3d_clipping_test(rv3d, co, true): TRUE when co is clipped
ED_view3d_clipping_test(rv3d, co) == co[rv3d.axis] < 0

RV3D_CLIPPING_ENABLED(rv3d) == rv3d.clipping

\* cache.symm_rot_mat_inv for a radial pass: the rotation by -angle
symm_rot_mat_inv(radial, v) ==
  RotQuarters(radial.axis, (4 - (((4 * radial.pass) \div radial.count) % 4)) % 4, v)

\* fill_factor_from_hide_and_mask
fill_factor_from_hide_and_mask(verts) ==
  [i \in DOMAIN verts |->
     IF verts[i].hide THEN FracInt(0) ELSE FracSub(FracInt(1), verts[i].mask)]

\* calc_front_face
calc_front_face(view_normal, verts, factors) ==
  [i \in DOMAIN verts |->
     FracMul(factors[i], FracMax(dot_v3(view_normal, verts[i].no), FracInt(0)))]

\* calc_brush_distances, sphere falloff
calc_brush_distances(location, verts) ==
  [i \in DOMAIN verts |-> FracInt(SqrtExact(len_squared_v3v3(location, verts[i].co)))]

\* filter_distances_with_radius that gives full strength beyond the radius
filter_distances_with_radius_full(radius, distances, factors) ==
  [i \in DOMAIN distances |->
     IF FracLess(radius, distances[i]) THEN FracInt(1) ELSE factors[i]]

\* filter_distances_with_radius
filter_distances_with_radius(radius, distances, factors) ==
  [i \in DOMAIN distances |->
     IF FracLess(radius, distances[i]) THEN FracInt(0) ELSE factors[i]]

\* BKE_brush_calc_curve_factors with the linear preset: no strength at or
\* beyond the radius, 1 - distance / radius inside
BKE_brush_calc_curve_factors(distances, radius, factors) ==
  [i \in DOMAIN distances |->
     IF FracLeq(radius, distances[i]) THEN FracInt(0)
     ELSE FracMul(factors[i], FracSub(FracInt(1), FracDiv(distances[i], radius)))]

\* calc_brush_strength_factors
calc_brush_strength_factors(radius, distances, factors) ==
  BKE_brush_calc_curve_factors(distances, radius, factors)

\* filter_region_clip_factors that tests the position as stored
filter_region_clip_factors_unmirrored(rv3d, mirror_symmetry_pass, radial, verts, factors) ==
  IF ~RV3D_CLIPPING_ENABLED(rv3d) THEN factors
  ELSE [i \in DOMAIN verts |->
          IF ED_view3d_clipping_test(rv3d, verts[i].co) THEN FracInt(0) ELSE factors[i]]

\* filter_region_clip_factors
filter_region_clip_factors(rv3d, mirror_symmetry_pass, radial, verts, factors) ==
  IF ~RV3D_CLIPPING_ENABLED(rv3d) THEN factors
  ELSE [i \in DOMAIN verts |->
          LET flipped == symmetry_flip(verts[i].co, mirror_symmetry_pass)
              symm_co == IF radial.pass # 0 THEN symm_rot_mat_inv(radial, flipped)
                         ELSE flipped
          IN IF ED_view3d_clipping_test(rv3d, symm_co) THEN FracInt(0) ELSE factors[i]]

\* SCULPT_brush_test_init: the test of the current pass
SCULPT_brush_test_init(rv3d, location, radius, mirror_symmetry_pass, radial) ==
  [radius_squared |-> radius * radius, location |-> location,
   mirror_symmetry_pass |-> mirror_symmetry_pass, radial |-> radial,
   clip_rv3d |-> IF RV3D_CLIPPING_ENABLED(rv3d) THEN <<rv3d>> ELSE NullPtr]

\* sculpt_brush_test_clipping
sculpt_brush_test_clipping(test, co) ==
  IF test.clip_rv3d = NullPtr THEN FALSE
  ELSE LET flipped == symmetry_flip(co, test.mirror_symmetry_pass)
           symm_co == IF test.radial.pass # 0 THEN symm_rot_mat_inv(test.radial, flipped)
                      ELSE flipped
       IN ED_view3d_clipping_test(test.clip_rv3d[1], symm_co)

\* SCULPT_brush_test_sphere_sq: [inside, dist], dist written only when inside
SCULPT_brush_test_sphere_sq(test, co) ==
  LET distsq == len_squared_v3v3(co, test.location)
  IN IF distsq > test.radius_squared THEN [inside |-> FALSE, dist |-> NONE]
     ELSE IF sculpt_brush_test_clipping(test, co) THEN [inside |-> FALSE, dist |-> NONE]
     ELSE [inside |-> TRUE, dist |-> distsq]

\* radial passes about Z with 4 repeats: pass 0 is the unrotated one
RadialPasses == { [axis |-> "Z", pass |-> i, count |-> 4] : i \in 0..1 }

MirrorSymmetryPasses == 0..2

FactorRadii == 1..2

InitFactors ==
  /\ IdleSession
  /\ \E verts \in [1..2 -> FactorVerts], rv3d \in RegionViews, radius \in FactorRadii,
        front_face \in BOOLEAN, m \in MirrorSymmetryPasses, radial \in RadialPasses :
       call = [fn |-> "factors", verts |-> verts, rv3d |-> rv3d, radius |-> radius,
               front_face |-> front_face, mirror_symmetry_pass |-> m, radial |-> radial,
               location |-> <<0, 0, 0>>,
               view_normal |-> <<FracInt(0), FracInt(0), FracInt(1)>>]

\* the factor stages of one brush pass over the vertices of a node, and the
\* per-vertex brush test of the same pass
CalcFactors ==
  /\ call.fn = "factors"
  /\ LET seed == fill_factor_from_hide_and_mask(call.verts)
         front == IF call.front_face
                  THEN calc_front_face(call.view_normal, call.verts, seed) ELSE seed
         distances == calc_brush_distances(call.location, call.verts)
         inside == filter_distances_with_radius(FracInt(call.radius), distances, front)
         falloff == calc_brush_strength_factors(FracInt(call.radius), distances, inside)
         clipped == filter_region_clip_factors(call.rv3d, call.mirror_symmetry_pass,
                                               call.radial, call.verts, falloff)
         test == SCULPT_brush_test_init(call.rv3d, call.location, call.radius,
                                        call.mirror_symmetry_pass, call.radial)
     IN call' = [fn |-> "factors_done", verts |-> call.verts, rv3d |-> call.rv3d,
                 radius |-> call.radius, front_face |-> call.front_face,
                 mirror_symmetry_pass |-> call.mirror_symmetry_pass,
                 radial |-> call.radial, location |-> call.location,
                 view_normal |-> call.view_normal,
                 seed |-> seed, front |-> front, distances |-> distances,
                 inside |-> inside, falloff |-> falloff, factors |-> clipped,
                 clip_only |-> filter_region_clip_factors(
                                 call.rv3d, call.mirror_symmetry_pass, call.radial,
                                 call.verts, [i \in 1..2 |-> FracInt(1)]),
                 test_clipped |-> [i \in 1..2 |->
                                     sculpt_brush_test_clipping(test, call.verts[i].co)],
                 test_sphere |-> [i \in 1..2 |->
                                    SCULPT_brush_test_sphere_sq(test, call.verts[i].co)]]
  /\ UNCHANGED <<symmVars, strokeVars>>

NextFactors == CalcFactors

SpecFactors == InitFactors /\ [][NextFactors]_vars

\* C14: after the seed, front face, distance falloff and region clip stages
\* the factor of every vertex is at most its value after the seed stage, and
\* so is the factor after every stage in between
C14_FactorNeverAboveSeed ==
  call.fn = "factors_done" =>
    \A i \in 1..2 :
      /\ FracLeq(call.front[i], call.seed[i])
      /\ FracLeq(call.inside[i], call.seed[i])
      /\ FracLeq(call.falloff[i], call.seed[i])
      /\ FracLeq(call.factors[i], call.seed[i])

\* a half masked vertex facing the view at an angle, half way into the brush:
\* seed 1/2, front face 2/5, falloff 1/5
C14_Witness ==
  /\ call.fn = "factors_done"
  /\ call.front_face /\ call.radius = 2
  /\ call.seed[1] = Frac(1, 2)
  /\ call.front[1] = Frac(2, 5)
  /\ call.falloff[1] = Frac(1, 5)
  /\ call.factors[1] = Frac(1, 5)
  /\ call.seed[2] = FracInt(1) /\ call.factors[2] = FracInt(0)

\* the reflection of a position through the planes of a mirror pass
Reflected(co, m) ==
  << IF m \in {1, 3, 5, 7} THEN -co[1] ELSE co[1],
     IF m \in {2, 3, 6, 7} THEN -co[2] ELSE co[2],
     IF m \in {4, 5, 6, 7} THEN -co[3] ELSE co[3] >>

\* the point handed to the clip test: the reflected position, turned back by
\* the quarter turn about Z in the radial pass
ClipTestPoint(co, m, radial) ==
  LET r == Reflected(co, m)
  IN IF radial.pass = 0 THEN r ELSE <<r[2], -r[1], r[3]>>

\* C16: with viewport clipping enabled, the per-vertex brush test and the
\* region clip filter both reject a vertex exactly when its position
\* reflected through the current mirror pass (and turned back by the radial
\* rotation in a radial pass) is clipped, whatever the stored position is
C16_ClipTestOnMirroredPosition ==
  (call.fn = "factors_done" /\ RV3D_CLIPPING_ENABLED(call.rv3d)) =>
    \A i \in 1..2 :
      LET tested == ClipTestPoint(call.verts[i].co, call.mirror_symmetry_pass, call.radial)
          clipped == tested[call.rv3d.axis] < 0
      IN /\ call.test_clipped[i] = clipped
         /\ (call.clip_only[i] = FracInt(0)) = clipped
         /\ clipped => (~call.test_sphere[i].inside /\ call.factors[i] = FracInt(0))

\* mirror pass X and a clip plane at x = 0: the vertex at (1, 0, 0) is tested
\* as (-1, 0, 0) and rejected, the vertex at (-1, 0, 0) is tested as (1, 0, 0)
\* and kept
C16_Witness ==
  /\ call.fn = "factors_done"
  /\ call.rv3d = [clipping |-> TRUE, axis |-> 1]
  /\ call.mirror_symmetry_pass = 1 /\ call.radial.pass = 0
  /\ call.verts[1].co = <<1, 0, 0>> /\ call.verts[2].co = <<-1, 0, 0>>
  /\ call.test_clipped = <<TRUE, FALSE>>
  /\ call.clip_only = <<FracInt(0), FracInt(1)>>


(***************************************************************************)
(* Brush radius inclusion tests.                                           *)
(***************************************************************************)

MaxCoord == 2

\* positions in the plane z = 0
RadiusPoints == { <<x, y, 0>> : x, y \in (-MaxCoord)..MaxCoord }

BrushLocations == { <<0, 0, 0>>, <<1, 0, 0>> }

\* node bounds: around the origin, beside it, further away
NodeBounds ==
  { [min |-> <<-1, -1, -1>>, max |-> <<1, 1, 1>>],
    [min |-> <<1, -1, -1>>, max |-> <<2, 1, 1>>],
    [min |-> <<2, 1, 0>>, max |-> <<3, 2, 1>>] }

Clamp(x, lo, hi) == IF x < lo THEN lo ELSE IF x > hi THEN hi ELSE x

\* SCULPT_is_vertex_inside_brush_radius_symm
SCULPT_is_vertex_inside_brush_radius_symm(vertex, br_co, radius, s) ==
  \E i \in 0..s :
    /\ SCULPT_is_symmetry_iteration_valid(i, s)
    /\ len_squared_v3v3(symmetry_flip(br_co, i), vertex) < radius * radius

\* node_in_sphere on the bounds of the node
node_in_sphere(bounds, location, radius_sq) ==
  LET nearest == [d \in 1..3 |-> Clamp(location[d], bounds.min[d], bounds.max[d])]
  IN len_squared_v3v3(location, nearest) < radius_sq

InitRadius ==
  /\ IdleSession
  /\ \E co \in RadiusPoints, location \in BrushLocations, radius \in FactorRadii,
        s \in 0..1, bounds \in NodeBounds :
       call = [fn |-> "radius", co |-> co, location |-> location, radius |-> radius,
               symm |-> s, bounds |-> bounds]

\* the three inclusion tests on the same brush
RadiusTests ==
  /\ call.fn = "radius"
  /\ LET test == SCULPT_brush_test_init([clipping |-> FALSE, axis |-> 1], call.location,
                                        call.radius, 0, [axis |-> "Z", pass |-> 0, count |-> 1])
         nearest == [d \in 1..3 |->
                       Clamp(call.location[d], call.bounds.min[d], call.bounds.max[d])]
     IN call' = [fn |-> "radius_done", co |-> call.co, location |-> call.location,
                 radius |-> call.radius, symm |-> call.symm, bounds |-> call.bounds,
                 distsq |-> len_squared_v3v3(call.co, call.location),
                 node_distsq |-> len_squared_v3v3(call.location, nearest),
                 sphere |-> SCULPT_brush_test_sphere_sq(test, call.co).inside,
                 inside_symm |-> SCULPT_is_vertex_inside_brush_radius_symm(
                                   call.co, call.location, call.radius, call.symm),
                 in_sphere |-> node_in_sphere(call.bounds, call.location,
                                              call.radius * call.radius)]
  /\ UNCHANGED <<symmVars, strokeVars>>

NextRadius == RadiusTests

SpecRadius == InitRadius /\ [][NextRadius]_vars

\* C18: a vertex at exactly the radius from the brush location is inside for
\* the sphere brush test and for the symmetric inside-brush-radius test, and a
\* node whose bounds come exactly as close as the radius is in the sphere
C18_ThresholdIsInside ==
  call.fn = "radius_done" =>
    /\ call.distsq = call.radius * call.radius => (call.sphere /\ call.inside_symm)
    /\ call.node_distsq = call.radius * call.radius => call.in_sphere


(***************************************************************************)
(* Displacement apply: clip_and_lock_translations, apply_translations and  *)
(* write_translations on float positions.                                  *)
(***************************************************************************)

\* bits of the float significand; positions and translations are float3
MantissaBits == 3

\* the exponents of the float format
MaxExponent == 6

\* the distances between neighbouring floats
FloatSteps ==
  { FracInt(2 ^ e) : e \in 0..MaxExponent } \cup { Frac(1, 2 ^ e) : e \in 1..MaxExponent }

\* the distance between neighbouring floats around the positive value a
FloatStep(a) ==
  CHOOSE step \in FloatSteps :
    /\ FracLeq(FracMul(FracInt(2 ^ (MantissaBits - 1)), step), a)
    /\ FracLess(a, FracMul(FracInt(2 ^ MantissaBits), step))

\* the multiple of step nearest to the positive value a, ties to the even
\* multiple
RoundToStep(a, step) ==
  CHOOSE v \in { FracMul(FracInt(IF FracLess(t[2], Frac(1, 2)) THEN t[1]
                                  ELSE IF FracLess(Frac(1, 2), t[2]) THEN t[1] + 1
                                  ELSE IF t[1] % 2 = 0 THEN t[1] ELSE t[1] + 1), t[3]) :
                   t \in { <<m.num \div m.den, FracSub(m, FracInt(m.num \div m.den)), s>> :
                             m \in {FracDiv(a, step)}, s \in {step} } } : TRUE

\* the float nearest to a real value, ties to the even significand
RoundFloat(x) ==
  CHOOSE r \in { IF v.num = 0 THEN v
                 ELSE IF v.num < 0
                 THEN FracSub(FracInt(0), RoundToStep(Frac(-v.num, v.den),
                                                      FloatStep(Frac(-v.num, v.den))))
                 ELSE RoundToStep(v, FloatStep(v)) : v \in {x} } : TRUE

IsFloat(x) == RoundFloat(x) = x

FloatAdd(a, b) == RoundFloat(FracAdd(a, b))
FloatSub(a, b) == RoundFloat(FracSub(a, b))

V3(x, y, z) == <<x, y, z>>
V3Int(x, y, z) == <<FracInt(x), FracInt(y), FracInt(z)>>
V3Neg(v) == [d \in 1..3 |-> FracSub(FracInt(0), v[d])]
V3FloatAdd(a, b) == [d \in 1..3 |-> FloatAdd(a[d], b[d])]

\* a 3x3 matrix (rows) applied to a vector
mul_m3_v3(mat, v) == [d \in 1..3 |-> RoundFloat(dot_v3(mat[d], v))]

\* math::transform_point with a float4x4: rotation and scale part, then the
\* location
transform_point(mat, v) == V3FloatAdd(mul_m3_v3(mat.rows, v), mat.loc)

IdentityRows == <<V3Int(1, 0, 0), V3Int(0, 1, 0), V3Int(0, 0, 1)>>

\* cache.clip_mirror_mtx with math::invert of it: the mirror object in the
\* frame of the sculpted object, and the mirror object turned by 45 degrees
\* about Z and scaled by sqrt(2)
ClipMirrors ==
  { [mirror |-> [rows |-> IdentityRows, loc |-> V3Int(0, 0, 0)],
     mirror_inverse |-> [rows |-> IdentityRows, loc |-> V3Int(0, 0, 0)]],
    [mirror |-> [rows |-> <<V3Int(1, -1, 0), V3Int(1, 1, 0), V3Int(0, 0, 1)>>,
                 loc |-> V3Int(0, 0, 0)],
     mirror_inverse |->
       [rows |-> << V3(Frac(1, 2), Frac(1, 2), FracInt(0)),
                    V3(Frac(-1, 2), Frac(1, 2), FracInt(0)), V3Int(0, 0, 1) >>,
        loc |-> V3Int(0, 0, 0)]] }

\* deform_imats of a vertex under a deformation by a quarter turn about Z
QuarterTurnInverse == <<V3Int(0, 1, 0), V3Int(-1, 0, 0), V3Int(0, 0, 1)>>
QuarterTurn == <<V3Int(0, -1, 0), V3Int(1, 0, 0), V3Int(0, 0, 1)>>

FracAbs(x) == Frac(Abs(x.num), x.den)

\* clip_and_lock_translations(sd, ss, positions, verts, translations);
\* lock and clip are the sets of axes with SCULPT_LOCK_X << axis and
\* CLIP_X << axis
RECURSIVE clip_and_lock_axis(_, _, _, _, _, _)
clip_and_lock_axis(axis, sd, cache, positions, verts, translations) ==
  IF axis > 3 THEN translations
  ELSE LET next ==
             IF axis \in sd.lock
             THEN [i \in DOMAIN translations |-> [translations[i] EXCEPT ![axis] = FracInt(0)]]
             ELSE IF axis \notin cache.clip THEN translations
             ELSE [i \in DOMAIN translations |->
                     LET vert == verts[i]
                         co_mirror == transform_point(cache.clip_mirror.mirror,
                                                      positions[vert])
                     IN IF FracLess(cache.clip_tolerance[axis], FracAbs(co_mirror[axis]))
                        THEN translations[i]
                        ELSE LET co_local ==
                                   transform_point(cache.clip_mirror.mirror_inverse,
                                                   [co_mirror EXCEPT ![axis] = FracInt(0)])
                             IN [translations[i] EXCEPT
                                   ![axis] = FloatSub(co_local[axis], positions[vert][axis])]]
       IN clip_and_lock_axis(axis + 1, sd, cache, positions, verts, next)

clip_and_lock_translations(sd, cache, positions, verts, translations) ==
  IF cache = NullPtr THEN translations
  ELSE clip_and_lock_axis(1, sd, cache[1], positions, verts, translations)

\* apply_translations that adds translations[i] to positions[i]
apply_translations_by_index(translations, verts, positions) ==
  [v \in DOMAIN positions |->
     IF v \in DOMAIN translations THEN V3FloatAdd(positions[v], translations[v])
     ELSE positions[v]]

\* apply_translations(translations, verts, positions); verts holds no vertex
\* twice
apply_translations(translations, verts, positions) ==
  [v \in DOMAIN positions |->
     IF \E i \in DOMAIN verts : verts[i] = v
     THEN V3FloatAdd(positions[v], translations[CHOOSE i \in DOMAIN verts : verts[i] = v])
     ELSE positions[v]]

\* apply_crazyspace_to_translations
apply_crazyspace_to_translations(deform_imats, verts, translations) ==
  [i \in DOMAIN translations |-> mul_m3_v3(deform_imats[verts[i]], translations[i])]

\* apply_translations_to_pbvh: the vertex positions of a deformed tree
apply_translations_to_pbvh(geo, verts, translations) ==
  IF ~geo.deformed THEN geo.pbvh_positions
  ELSE apply_translations(translations, verts, geo.pbvh_positions)

\* apply_translations_to_shape_keys, for a key without dependent keys
apply_translations_to_shape_keys(geo, verts, translations, positions_orig) ==
  IF geo.active_key = NullPtr THEN geo.active_key
  ELSE IF geo.active_key[1].refkey
  THEN << [geo.active_key[1] EXCEPT
             !.data = [v \in DOMAIN @ |->
                         IF \E i \in DOMAIN verts : verts[i] = v THEN positions_orig[v]
                         ELSE @[v]]] >>
  ELSE << [geo.active_key[1] EXCEPT !.data = apply_translations(translations, verts, @)] >>

\* write_translations(sd, object, positions_eval, verts, translations,
\* positions_orig) on the geometry geo of the object
write_translations(sd, cache, geo, verts, translations) ==
  LET positions_eval == IF geo.deformed THEN geo.pbvh_positions ELSE geo.positions_orig
      clipped == clip_and_lock_translations(sd, cache, positions_eval, verts, translations)
      pbvh_positions == apply_translations_to_pbvh(geo, verts, clipped)
      local == IF geo.deform_imats # <<>>
               THEN apply_crazyspace_to_translations(geo.deform_imats, verts, clipped)
               ELSE clipped
      positions_orig == apply_translations(local, verts, geo.positions_orig)
  IN [geo EXCEPT !.positions_orig = positions_orig,
                 !.pbvh_positions = pbvh_positions,
                 !.active_key = apply_translations_to_shape_keys(geo, verts, local,
                                                                 positions_orig)]

TranslatePositions == { V3Int(1, 0, 0), V3Int(0, 2, 0), V3Int(1, 1, 0) }

Translations ==
  { V3Int(0, 0, 0), V3Int(1, 0, 0), V3Int(16, 0, 0), V3Int(0, -1, 0), V3Int(7, 1, 0) }

\* the stroke cache fields read by clip_and_lock_translations
ClipCaches ==
  { [clip |-> {}, clip_mirror |-> m, clip_tolerance |-> V3Int(0, 0, 0)] :
      m \in {x \in ClipMirrors : x.mirror.rows = IdentityRows} }
  \cup { [clip |-> {1}, clip_mirror |-> m, clip_tolerance |-> V3Int(t, t, t)] :
           m \in ClipMirrors, t \in 0..1 }

\* the geometry of the object: base positions, the positions of the tree
\* (its own array when the mesh is deformed), the inverse deformation
\* matrices and the active shape key
Geometries ==
  { [positions_orig |-> pos,
     deformed |-> d,
     pbvh_positions |-> IF d THEN [v \in 1..2 |-> mul_m3_v3(QuarterTurn, pos[v])] ELSE pos,
     deform_imats |-> IF d THEN <<QuarterTurnInverse, QuarterTurnInverse>> ELSE <<>>,
     active_key |-> IF k = "none" THEN NullPtr
                    ELSE <<[refkey |-> (k = "refkey"), data |-> pos]>>] :
      pos \in [1..2 -> TranslatePositions], d \in BOOLEAN,
      k \in {"none", "refkey", "key"} }

InitTranslate ==
  /\ IdleSession
  /\ \E geo \in Geometries, lock \in {{}, {1}}, cache \in {NullPtr} \cup {<<c>> : c \in ClipCaches},
        vert \in 1..2, t \in Translations :
       call = [fn |-> "translate", sd |-> [lock |-> lock], cache |-> cache, geo |-> geo,
               verts |-> <<vert>>, translations |-> <<t>>, orig |-> geo, applied |-> geo]

\* a brush writes its translations
WriteTranslations ==
  /\ call.fn = "translate"
  /\ call' = [call EXCEPT
                !.fn = "translated",
                !.geo = write_translations(call.sd, call.cache, call.geo, call.verts,
                                           call.translations),
                !.applied = write_translations(call.sd, call.cache, call.geo, call.verts,
                                               call.translations)]
  /\ UNCHANGED <<symmVars, strokeVars>>

\* the negated translations are written right after
WriteNegation ==
  /\ call.fn = "translated"
  /\ call' = [call EXCEPT
                !.fn = "restored",
                !.geo = write_translations(call.sd, call.cache, call.geo, call.verts,
                                           [i \in DOMAIN call.translations |->
                                              V3Neg(call.translations[i])])]
  /\ UNCHANGED <<symmVars, strokeVars>>

NextTranslate == WriteTranslations \/ WriteNegation

SpecTranslate == InitTranslate /\ [][NextTranslate]_vars

\* the positions the clip test reads
PositionsEval(geo) == IF geo.deformed THEN geo.pbvh_positions ELSE geo.positions_orig

\* an axis on which the mirror clipping acts
ClippedAxes == IF call.cache = NullPtr THEN {} ELSE call.cache[1].clip \ call.sd.lock

\* C15: writing the translations and then their negation leaves every
\* touched vertex at its original position
C15_RoundTripExact ==
  call.fn = "restored" =>
    \A i \in DOMAIN call.verts :
      call.geo.positions_orig[call.verts[i]] = call.orig.positions_orig[call.verts[i]]

\* the translation of a vertex in the space of the base positions, the
\* locked axes cleared during a stroke
LocalTranslation(i) ==
  LET locked == [d \in 1..3 |-> IF call.cache # NullPtr /\ d \in call.sd.lock
                                THEN FracInt(0)
                                ELSE call.translations[i][d]]
  IN IF call.geo.deform_imats # <<>>
     THEN mul_m3_v3(call.geo.deform_imats[call.verts[i]], locked)
     ELSE locked

\* C15, amended: without mirror clipping the first write moves a touched
\* vertex by its translation (locked axes cleared during a stroke, the sum
\* rounded to a float), the
\* other vertices stay, and the negation brings the vertex back exactly
\* whenever the sum was a float without rounding
C15_RoundTripWithoutRounding ==
  (call.fn \in {"translated", "restored"} /\ ClippedAxes = {}) =>
    \A v \in 1..2 :
      IF \E i \in DOMAIN call.verts : call.verts[i] = v
      THEN LET i == CHOOSE j \in DOMAIN call.verts : call.verts[j] = v
               sum == [d \in 1..3 |-> FracAdd(call.orig.positions_orig[v][d],
                                              LocalTranslation(i)[d])]
           IN /\ call.applied.positions_orig[v] = [d \in 1..3 |-> RoundFloat(sum[d])]
              /\ (call.fn = "restored" /\ \A d \in 1..3 : IsFloat(sum[d])) =>
                   call.geo.positions_orig[v] = call.orig.positions_orig[v]
      ELSE call.geo.positions_orig[v] = call.orig.positions_orig[v]

\* vertex 2 at (1, 0, 0) moved by (7, 1, 0) to (8, 1, 0) and back
C15_Witness ==
  /\ call.fn = "restored" /\ ClippedAxes = {}
  /\ call.verts = <<2>> /\ call.translations = <<V3Int(7, 1, 0)>>
  /\ call.orig.positions_orig[2] = V3Int(1, 0, 0)
  /\ call.applied.positions_orig[2] = V3Int(8, 1, 0)
  /\ call.geo.positions_orig[2] = V3Int(1, 0, 0)

\* C20: a vertex within the clip tolerance of the mirror plane of an
\* unlocked, clipped axis lies on the plane, in the space of the mirror
\* object, after its translation has been written
C20_ClippedVertexOnMirrorPlane ==
  call.fn = "translated" =>
    \A i \in DOMAIN call.verts : \A axis \in ClippedAxes :
      LET c == call.cache[1]
          before == transform_point(c.clip_mirror.mirror,
                                    PositionsEval(call.orig)[call.verts[i]])
          after == transform_point(c.clip_mirror.mirror,
                                   PositionsEval(call.geo)[call.verts[i]])
      IN FracLeq(FracAbs(before[axis]), c.clip_tolerance[axis]) =>
           after[axis] = FracInt(0)


(***************************************************************************)
(* Reductions over the gathered nodes: threading::parallel_reduce with the *)
(* nearest vertex search, the fake neighbor search and the area normal and *)
(* center accumulation.                                                    *)
(***************************************************************************)

FLT_MAX == 1000

PBVH_REF_NONE == -1

\* the unique vertex of each of three gathered nodes, its index being the
\* node's index:
\* squared distance to the location, visibility, side of the view normal,
\* weighted coordinate for the area center, topology island
ReduceVerts ==
  [distance_sq : {1, 2}, hide : BOOLEAN, flip_index : {0, 1},
   area_co : {FracInt(1), FracInt(8)}, topology_id : {0, 1}]

\* the ways the scheduler splits the node range into consecutive ranges, and
\* the two shapes of the join tree
Schedules ==
  { [ranges |-> r, right_first |-> b] :
      r \in { <<<<1, 2, 3>>>>, <<<<1>>, <<2, 3>>>>, <<<<1, 2>>, <<3>>>>,
              <<<<1>>, <<2>>, <<3>>>> },
      b \in BOOLEAN }

\* nearest_vert_calc_mesh: NearestData(), the body on one node, the reduction
\* of two results
NearestData == [vert |-> -1, distance_sq |-> FLT_MAX]

nearest_vert_body(nearest, vert, v) ==
  IF v.hide THEN nearest
  ELSE IF v.distance_sq < nearest.distance_sq
  THEN [vert |-> vert, distance_sq |-> v.distance_sq]
  ELSE nearest

nearest_vert_reduction(a, b) == IF a.distance_sq < b.distance_sq THEN a ELSE b

\* the reduction of fake_neighbor_search for a vertex of island 0, no vertex
\* having a fake neighbor yet: do_fake_neighbor_search_task on one node, the
\* reduction of two results
do_fake_neighbor_search_task(max_distance_sq, nvtd, vert, v) ==
  IF v.topology_id # nvtd.current_topology_id
     /\ v.distance_sq < nvtd.nearest_vertex_distance_sq
     /\ v.distance_sq < max_distance_sq
  THEN [nvtd EXCEPT !.nearest_vertex = vert, !.nearest_vertex_distance_sq = v.distance_sq]
  ELSE nvtd

fake_neighbor_reduction(a, b) ==
  IF a.nearest_vertex = PBVH_REF_NONE
  THEN [a EXCEPT !.nearest_vertex = b.nearest_vertex,
                 !.nearest_vertex_distance_sq = b.nearest_vertex_distance_sq]
  ELSE IF b.nearest_vertex_distance_sq < a.nearest_vertex_distance_sq
  THEN [a EXCEPT !.nearest_vertex = b.nearest_vertex,
                 !.nearest_vertex_distance_sq = b.nearest_vertex_distance_sq]
  ELSE a

\* AreaNormalCenterData{}; one coordinate of area_cos and of area_nos
AreaNormalCenterData ==
  [area_cos |-> <<FracInt(0), FracInt(0)>>, count_co |-> <<0, 0>>,
   area_nos |-> <<FracInt(0), FracInt(0)>>, count_no |-> <<0, 0>>]

\* calc_area_normal_and_center_node_mesh with use_area_cos and use_area_nos,
\* the vertex passing both brush tests with normal weight 1
calc_area_normal_and_center_node_mesh(anctd, vert, v) ==
  IF v.hide THEN anctd
  ELSE LET f == v.flip_index + 1
       IN [anctd EXCEPT !.area_cos[f] = FloatAdd(@, v.area_co),
                        !.count_co[f] = @ + 1,
                        !.area_nos[f] = FloatAdd(@, FracInt(1)),
                        !.count_no[f] = @ + 1]

calc_area_normal_and_center_reduce(a, b) ==
  [area_cos |-> [n \in 1..2 |-> FloatAdd(a.area_cos[n], b.area_cos[n])],
   count_co |-> [n \in 1..2 |-> a.count_co[n] + b.count_co[n]],
   area_nos |-> [n \in 1..2 |-> FloatAdd(a.area_nos[n], b.area_nos[n])],
   count_no |-> [n \in 1..2 |-> a.count_no[n] + b.count_no[n]]]

\* the body lambda of a reduction on one node
reduce_body(fn, max_distance_sq, acc, vert, v) ==
  CASE fn = "nearest_vert_calc_mesh" -> nearest_vert_body(acc, vert, v)
    [] fn = "fake_neighbor_search" ->
         do_fake_neighbor_search_task(max_distance_sq, acc, vert, v)
    [] fn = "calc_area_center" -> calc_area_normal_and_center_node_mesh(acc, vert, v)

\* the reduction lambda that joins two results
reduce_join(fn, a, b) ==
  CASE fn = "nearest_vert_calc_mesh" -> nearest_vert_reduction(a, b)
    [] fn = "fake_neighbor_search" -> fake_neighbor_reduction(a, b)
    [] fn = "calc_area_center" -> calc_area_normal_and_center_reduce(a, b)

\* the body run over one range, starting from init
FoldRange(fn, max_distance_sq, nodes, range, init) ==
  LET f[k \in 0..Len(range)] ==
        IF k = 0 THEN init
        ELSE reduce_body(fn, max_distance_sq, f[k - 1], range[k], nodes[range[k]])
  IN f[Len(range)]

\* threading::parallel_reduce(range, 1, identity, body, reduction): every
\* range starts from the identity, neighbouring results are joined left to
\* right
parallel_reduce(fn, max_distance_sq, nodes, schedule, identity) ==
  LET parts == [k \in DOMAIN schedule.ranges |->
                  FoldRange(fn, max_distance_sq, nodes, schedule.ranges[k], identity)]
  IN IF Len(parts) = 1 THEN parts[1]
     ELSE IF Len(parts) = 2 THEN reduce_join(fn, parts[1], parts[2])
     ELSE IF schedule.right_first
     THEN reduce_join(fn, parts[1], reduce_join(fn, parts[2], parts[3]))
     ELSE reduce_join(fn, reduce_join(fn, parts[1], parts[2]), parts[3])

nearest_vert_calc_mesh(nodes, schedule) ==
  parallel_reduce("nearest_vert_calc_mesh", 0, nodes, schedule, NearestData).vert

fake_neighbor_search_reduce(nodes, max_distance_sq, schedule) ==
  LET nvtd == [nearest_vertex |-> -1, nearest_vertex_distance_sq |-> FLT_MAX,
               current_topology_id |-> 0]
  IN parallel_reduce("fake_neighbor_search", max_distance_sq, nodes, schedule,
                     nvtd).nearest_vertex

calc_area_normal_and_center(nodes, schedule) ==
  parallel_reduce("calc_area_center", 0, nodes, schedule, AreaNormalCenterData)

InitReduce ==
  /\ IdleSession
  /\ \E nodes \in [1..3 -> ReduceVerts] :
       call = [fn |-> "reduce", nodes |-> nodes]

\* the three reductions under every schedule
Reduce ==
  /\ call.fn = "reduce"
  /\ call' = [fn |-> "reduce_done", nodes |-> call.nodes,
              nearest |-> [sch \in Schedules |-> nearest_vert_calc_mesh(call.nodes, sch)],
              fake_neighbor |-> [sch \in Schedules |->
                                   fake_neighbor_search_reduce(call.nodes, 3, sch)],
              area |-> [sch \in Schedules |->
                          calc_area_normal_and_center(call.nodes, sch)]]
  /\ UNCHANGED <<symmVars, strokeVars>>

NextReduce == Reduce

SpecReduce == InitReduce /\ [][NextReduce]_vars

\* C17: the nearest vertex, the fake neighbor and the accumulated area data
\* are the same for every split of the node range and every join order,
\* also when several vertices are at the same smallest distance
C17_ReductionIndependentOfSchedule ==
  call.fn = "reduce_done" =>
    \A s1, s2 \in Schedules :
      /\ call.nearest[s1] = call.nearest[s2]
      /\ call.fake_neighbor[s1] = call.fake_neighbor[s2]
      /\ call.area[s1] = call.area[s2]

(***************************************************************************)
(* The mirror combinations of a step (SpecSymm).                           *)
(***************************************************************************)

PopCount(s) == Bit(s, 0) + Bit(s, 1) + Bit(s, 2)

\* the sub-masks of a symmetry bitmask: i AND NOT s = 0
SubMasks(s) == {i \in 0..7 : BitAnd(i, 7 - s) = 0}

\* C24: for every symmetry bitmask the mirror combinations a step runs are
\* exactly the sub-masks of the bitmask, so the step runs 2^popcount(symm)
\* mirror passes, never mirrors across a disabled axis and runs no mirror
\* combination twice
C24_MirrorsAreSubMasks ==
  passes # <<>> =>
    /\ MirrorsRun = SubMasks(symm)
    /\ {i \in 0..symm : SCULPT_is_symmetry_iteration_valid(i, symm)} = SubMasks(symm)
    /\ Cardinality(MirrorPasses) = 2 ^ PopCount(symm)
    /\ \A k \in 1..Len(passes) : BitAnd(passes[k].mirror, 7 - symm) = 0
    /\ \A m \in SubMasks(symm) :
         Cardinality({k \in MirrorPasses : passes[k].mirror = m}) = 1

C24_Witness == symm = 5 /\ MirrorsRun = {0, 1, 4, 5} /\ Cardinality(MirrorPasses) = 4

(***************************************************************************)
(* Update types of the flushes of a stroke (Spec).                         *)
(***************************************************************************)

\* C29: for every tool the update type flushed at the end of a stroke is the
\* update type that was flushed after the steps of that stroke
C29_DoneFlushMatchesStepFlush ==
  (hist.ended \in {"done", "cancel"} /\ hist.flushed # NONE /\ hist.step_flush.type # NONE) =>
    hist.flushed = hist.step_flush.type

(***************************************************************************)
(* The undo step of a mesh filter run (Spec).                              *)
(***************************************************************************)

\* C26: when a mesh filter run that opened an undo step has finished, on the
\* modal confirm, the modal cancel or the exec path, the undo step has been
\* closed by an undo push-end
C26_FilterUndoStepClosed ==
  (op.pc = "idle" /\ hist.ended \in {"filter_confirm", "filter_cancel", "filter_exec"}) =>
    ~undo.active

(***************************************************************************)
(* Auto-masking cache of a stroke (Spec).                                  *)
(***************************************************************************)

\* a brush action of the running stroke has acted on a non-empty node set
BrushActionRan ==
  ss.cache # NullPtr /\ \E t \in UndoTypes : hist.changed[t] # {}

\* C25: in a stroke with auto-masking enabled the auto-masking cache of the
\* stroke has been initialized once a pass that gathered a non-empty node
\* set has run its brush action, also when the main pass of the first step
\* gathered no nodes
C25_AutomaskingInitializedBeforeAction ==
  (BrushActionRan /\ cfg.automasking) => ss.cache[1].automasking # NULL

(***************************************************************************)
(* Accumulation and the use of the original coordinates (SpecOriginal).    *)
(***************************************************************************)

\* sculpt_tool_needs_original
sculpt_tool_needs_original(tool) ==
  tool \in {"GRAB", "ROTATE", "THUMB", "LAYER", "DRAW_SHARP", "ELASTIC_DEFORM", "SMOOTH",
            "BOUNDARY", "POSE"}

\* SCULPT_TOOL_HAS_ACCUMULATE
SCULPT_TOOL_HAS_ACCUMULATE(tool) ==
  tool \in {"DRAW", "DRAW_SHARP", "SLIDE_RELAX", "CREASE", "BLOB", "INFLATE", "CLAY",
            "CLAY_STRIPS", "CLAY_THUMB", "ROTATE", "SCRAPE", "FLATTEN"}

\* cache->accum without the BRUSH_ANCHORED rule
cache_accum_ignores_anchored(brush) ==
  LET a1 == TRUE
      a2 == a1
      a3 == IF brush.tool = "DRAW_SHARP" THEN FALSE ELSE a2
      a4 == IF SCULPT_TOOL_HAS_ACCUMULATE(brush.tool) /\ ~brush.accumulate
              THEN brush.tool = "DRAW_SHARP" ELSE a3
  IN IF brush.tool = "PAINT" /\ brush.image_paint THEN TRUE ELSE a4

\* cache->accum as sculpt_update_cache_invariants leaves it: the assignments
\* to the flag in their order
cache_accum(brush) ==
  LET a1 == TRUE
      a2 == IF brush.anchored THEN FALSE ELSE a1
      a3 == IF brush.tool = "DRAW_SHARP" THEN FALSE ELSE a2
      a4 == IF SCULPT_TOOL_HAS_ACCUMULATE(brush.tool) /\ ~brush.accumulate
              THEN brush.tool = "DRAW_SHARP" ELSE a3
  IN IF brush.tool = "PAINT" /\ brush.image_paint THEN TRUE ELSE a4

\* use_original of do_brush_action
use_original(brush, accum) ==
  IF sculpt_tool_needs_original(brush.tool) THEN TRUE ELSE ~accum

\* the brushes of the accumulation model: tool, BRUSH_ANCHORED,
\* BRUSH_ACCUMULATE and SCULPT_use_image_paint_brush
AccumTools == {"DRAW", "DRAW_SHARP", "CLAY", "GRAB", "SMOOTH", "MASK", "PAINT", "SMEAR"}

AccumBrushes ==
  { [tool |-> t, anchored |-> a, accumulate |-> f, image_paint |-> p] :
      t \in AccumTools, a \in BOOLEAN, f \in BOOLEAN, p \in BOOLEAN }

InitOriginal ==
  /\ IdleSession
  /\ \E b \in AccumBrushes : call = [fn |-> "stroke_start", brush |-> b]

\* the stroke starts: sculpt_update_cache_invariants sets cache->accum
UpdateCacheInvariants ==
  /\ call.fn = "stroke_start"
  /\ call' = [fn |-> "stroke", brush |-> call.brush, accum |-> cache_accum(call.brush),
              use_original |-> <<>>]
  /\ UNCHANGED <<symmVars, strokeVars>>

\* a step of the stroke: do_brush_action computes use_original from the cache
BrushActionOriginal ==
  /\ call.fn = "stroke"
  /\ Len(call.use_original) < MaxSteps
  /\ call' = [call EXCEPT !.use_original = Append(@, use_original(call.brush, call.accum))]
  /\ UNCHANGED <<symmVars, strokeVars>>

NextOriginal == UpdateCacheInvariants \/ BrushActionOriginal

SpecOriginal == InitOriginal /\ [][NextOriginal]_vars

AnchoredOrDrawSharp == call.brush.anchored \/ call.brush.tool = "DRAW_SHARP"

ImagePaintBrush == call.brush.tool = "PAINT" /\ call.brush.image_paint

\* C22 as stated: in a stroke whose brush is anchored or is the draw sharp
\* tool accumulation is disabled and every step has use_original true
C22_AnchoredUsesOriginal ==
  (call.fn = "stroke" /\ AnchoredOrDrawSharp) =>
    /\ ~call.accum
    /\ \A k \in 1..Len(call.use_original) : call.use_original[k]

\* C22 amended: in a stroke whose brush is anchored or is the draw sharp
\* tool every step has use_original true, unless the brush is the paint tool
\* painting on the image canvas, whose accum flag is set and whose steps have
\* use_original false; the accum flag is cleared for the other anchored
\* brushes except a draw sharp brush without BRUSH_ACCUMULATE, which keeps the
\* flag set and uses the original coordinates as a tool that needs them
C22_OriginalUnlessImagePaint ==
  (call.fn = "stroke" /\ AnchoredOrDrawSharp) =>
    /\ \A k \in 1..Len(call.use_original) : call.use_original[k] = ~ImagePaintBrush
    /\ call.accum =
         (ImagePaintBrush \/ (call.brush.tool = "DRAW_SHARP" /\ ~call.brush.accumulate))

\* an anchored draw brush ran all its steps from the original coordinates
C22_Witness ==
  /\ call.fn = "stroke"
  /\ call.brush.anchored /\ call.brush.tool = "DRAW"
  /\ Len(call.use_original) = MaxSteps
  /\ \A k \in 1..MaxSteps : call.use_original[k]

(***************************************************************************)
(* The fake neighbor table over topology islands (SpecFakeNeighbors).      *)
(***************************************************************************)

NumVerts == 3

Verts == 1..NumVerts

\* positions on a line and the island keys of islands::vert_id_get
VertCoords == 0..2
IslandKeys == {0, 1}

\* fake_neighbor_search that takes a vertex of any island
fake_neighbor_search_any_island(positions, topology, index, v, max_dist) ==
  LET cand == {u \in Verts : u # v /\ index[u] = FAKE_NEIGHBOR_NONE
                             /\ DistSq(positions, u, v) < max_dist * max_dist}
      best == {u \in cand : \A x \in cand : DistSq(positions, u, v) <= DistSq(positions, x, v)}
  IN IF cand = {} THEN PBVH_REF_NONE
     ELSE CHOOSE u \in best : \A x \in best : u <= x

\* fake_neighbor_search with do_fake_neighbor_search_task: the nearest vertex
\* with another island key that has no fake neighbor yet and lies below the
\* max distance, the first one of several at the same distance
fake_neighbor_search_island(positions, topology, index, v, max_dist) ==
  LET cand == {u \in Verts : topology[u] # topology[v] /\ index[u] = FAKE_NEIGHBOR_NONE
                             /\ DistSq(positions, u, v) < max_dist * max_dist}
      best == {u \in cand : \A x \in cand : DistSq(positions, u, v) <= DistSq(positions, x, v)}
  IN IF cand = {} THEN PBVH_REF_NONE
     ELSE CHOOSE u \in best : \A x \in best : u <= x

\* the loop of SCULPT_fake_neighbors_ensure over the vertices from i on
RECURSIVE FakeNeighborIslandLoop(_, _, _, _, _)
FakeNeighborIslandLoop(positions, topology, index, i, max_dist) ==
  IF i > NumVerts THEN index
  ELSE LET to_v == IF index[i] = FAKE_NEIGHBOR_NONE
                     THEN fake_neighbor_search_island(positions, topology, index, i, max_dist)
                     ELSE PBVH_REF_NONE
           next == IF to_v # PBVH_REF_NONE THEN fake_neighbor_add(index, i, to_v) ELSE index
       IN FakeNeighborIslandLoop(positions, topology, next, i + 1, max_dist)

\* SCULPT_fake_neighbors_ensure on the table fn of a mesh with islands
fake_neighbors_ensure_islands(fn, positions, topology, max_dist) ==
  IF fn.fake_neighbor_index # NullPtr /\ fn.current_max_distance = max_dist
    THEN fn
    ELSE [fake_neighbor_index |->
            <<FakeNeighborIslandLoop(positions, topology,
                                     [v \in Verts |-> FAKE_NEIGHBOR_NONE], 1, max_dist)>>,
          current_max_distance |-> max_dist]

InitFakeNeighbors ==
  /\ IdleSession
  /\ \E positions \in [Verts -> VertCoords], topology \in [Verts -> IslandKeys] :
       call = [fn |-> "islands", positions |-> positions, topology |-> topology,
               fake_neighbors |-> InitWorld.ss.fake_neighbors,
               built_from |-> positions, in_stroke |-> FALSE]

\* a caller ensures the fake neighbors with a max distance
EnsureFakeNeighbors ==
  /\ call.fn \in {"islands", "moved", "flushed"}
  /\ \E max_dist \in MaxDists :
       LET fn == fake_neighbors_ensure_islands(call.fake_neighbors, call.positions,
                                               call.topology, max_dist)
       IN call' = [call EXCEPT !.fn = "ensured",
                               !.fake_neighbors = fn,
                               !.built_from = IF fn = call.fake_neighbors THEN @
                                              ELSE call.positions]
  /\ UNCHANGED <<symmVars, strokeVars>>

\* a step of a stroke moves a vertex; the step flush keeps the table
StrokeStepMovesVertex ==
  /\ call.fn \in {"ensured", "flushed"}
  /\ ~call.in_stroke
  /\ \E v \in Verts, co \in VertCoords :
       /\ co # call.positions[v]
       /\ call' = [call EXCEPT !.fn = "moved", !.positions[v] = co, !.in_stroke = TRUE]
  /\ UNCHANGED <<symmVars, strokeVars>>

\* the stroke ends: flush_update_done with UpdateType::Position frees the table
StrokeDoneFreesFakeNeighbors ==
  /\ call.fn \in {"moved", "ensured"}
  /\ call.in_stroke
  /\ call' = [call EXCEPT !.fn = "flushed",
                          !.fake_neighbors.fake_neighbor_index = NullPtr,
                          !.in_stroke = FALSE]
  /\ UNCHANGED <<symmVars, strokeVars>>

NextFakeNeighbors ==
  EnsureFakeNeighbors \/ StrokeStepMovesVertex \/ StrokeDoneFreesFakeNeighbors

SpecFakeNeighbors == InitFakeNeighbors /\ [][NextFakeNeighbors]_vars

\* the table is a symmetric partial matching of vertices of different
\* islands that are closer than the max distance in the given positions
FakeNeighborMatching(positions) ==
  LET index == call.fake_neighbors.fake_neighbor_index[1]
      d == call.fake_neighbors.current_max_distance
  IN \A a \in Verts :
       index[a] # FAKE_NEIGHBOR_NONE =>
         /\ index[index[a]] = a
         /\ index[a] # a
         /\ call.topology[a] # call.topology[index[a]]
         /\ DistSq(positions, a, index[a]) < d * d

\* C28 as stated: after SCULPT_fake_neighbors_ensure the table is a symmetric
\* partial matching of vertices of different islands whose distance is below
\* the max distance
C28_MatchingInCurrentPositions ==
  call.fn = "ensured" => FakeNeighborMatching(call.positions)

\* C28 amended: after SCULPT_fake_neighbors_ensure the table is a symmetric
\* partial matching of vertices of different islands whose distance was
\* below the max distance in the positions the table was built from; when no
\* vertex has moved since, those are the current positions
C28_MatchingInBuildPositions ==
  call.fn = "ensured" =>
    /\ FakeNeighborMatching(call.built_from)
    /\ ~call.in_stroke => call.built_from = call.positions

\* a table with a matched pair was kept by an ensure after a vertex had moved
C28_Witness ==
  /\ call.fn = "ensured"
  /\ call.in_stroke
  /\ call.built_from # call.positions
  /\ \E a \in Verts : call.fake_neighbors.fake_neighbor_index[1][a] # FAKE_NEIGHBOR_NONE

(***************************************************************************)
(* Distances of the cube brush tip (SpecCube).                             *)
(***************************************************************************)

FracMin(a, b) == IF FracLess(b, a) THEN b ELSE a

\* sqrtf of a fraction: exact for the square of a fraction, rounded down to
\* a multiple of 1 / den otherwise
ISqrt(n) == CHOOSE k \in 0..n : k * k <= n /\ (k + 1) * (k + 1) > n
FracSqrt(q) == Frac(ISqrt(q.num * q.den), q.den)

len_v2v2(a, b) ==
  FracSqrt(FracAdd(FracMul(FracSub(a[1], b[1]), FracSub(a[1], b[1])),
                   FracMul(FracSub(a[2], b[2]), FracSub(a[2], b[2]))))

\* SCULPT_brush_test_cube with test.dist passed in and out: [inside, dist],
\* dist being test.dist after the call; local is the brush local matrix, a
\* uniform scale by 1 / local.scale about local.loc
SCULPT_brush_test_cube(test, dist, co, local, roundness) ==
  IF sculpt_brush_test_clipping(test, co) THEN [inside |-> FALSE, dist |-> dist]
  ELSE LET local_co == [d \in 1..3 |-> FracAbs(Frac(co[d] - local.loc[d], local.scale))]
           side == FracAdd(FracInt(1), FracMul(FracSub(FracInt(1), FracInt(1)), roundness))
           hardness == FracSub(FracInt(1), roundness)
           constant_side == FracMul(hardness, side)
           falloff_side == FracMul(roundness, side)
           r_point == <<constant_side, constant_side, constant_side>>
       IN IF ~(FracLeq(local_co[1], side) /\ FracLeq(local_co[2], side)
               /\ FracLeq(local_co[3], side))
            THEN [inside |-> FALSE, dist |-> dist]
          ELSE IF FracLess(constant_side, FracMin(local_co[1], local_co[2]))
            THEN [inside |-> TRUE, dist |-> FracDiv(len_v2v2(r_point, local_co), falloff_side)]
          ELSE IF FracLess(constant_side, FracMax(local_co[1], local_co[2]))
            THEN [inside |-> TRUE,
                  dist |-> FracDiv(FracSub(FracMax(local_co[1], local_co[2]), constant_side),
                                   falloff_side)]
          ELSE [inside |-> TRUE, dist |-> FracInt(0)]

\* the loop of calc_brush_cube_distances over the tested coordinates cos;
\* test.dist is 0 after SCULPT_brush_test_init and is carried from one
\* vertex to the next
CubeDistancesLoop(test, local, roundness, cos, factors) ==
  LET f[k \in 0..Len(cos)] ==
        IF k = 0
          THEN [dist |-> FracInt(0), r_distances |-> [i \in DOMAIN cos |-> FracInt(0)],
                factors |-> factors]
        ELSE LET p == f[k - 1]
             IN IF p.factors[k] = 0
                  THEN [p EXCEPT !.r_distances[k] = FracInt(FLT_MAX)]
                ELSE LET t == SCULPT_brush_test_cube(test, p.dist, cos[k], local, roundness)
                     IN [dist |-> t.dist,
                         r_distances |-> [p.r_distances EXCEPT ![k] = t.dist],
                         factors |-> IF t.inside THEN p.factors
                                     ELSE [p.factors EXCEPT ![k] = 0]]
  IN [r_distances |-> f[Len(cos)].r_distances, factors |-> f[Len(cos)].factors]

\* calc_brush_cube_distances(ss, brush, mat, positions, verts, r_distances, factors)
calc_brush_cube_distances_verts(test, local, roundness, positions, verts, factors) ==
  CubeDistancesLoop(test, local, roundness, [i \in DOMAIN verts |-> positions[verts[i]]],
                    factors)

\* calc_brush_cube_distances(ss, brush, mat, positions, r_distances, factors)
calc_brush_cube_distances(test, local, roundness, positions, factors) ==
  CubeDistancesLoop(test, local, roundness, positions, factors)

CubePoints ==
  {<<0, 0, 0>>, <<3, 0, 0>>, <<3, 4, 0>>, <<-3, 4, 0>>, <<5, 5, 0>>, <<6, 0, 0>>, <<0, 0, 6>>}

CubeVertOrders == {<<1, 2>>, <<2, 1>>}

TipRoundness == {Frac(0, 1), Frac(1, 2), Frac(1, 1)}

CubeViews == {v \in RegionViews : v.axis = 1}

InitCube ==
  /\ IdleSession
  /\ \E positions \in [1..2 -> CubePoints], verts \in CubeVertOrders,
        factors \in [1..2 -> {0, 1}], roundness \in TipRoundness, rv3d \in CubeViews :
       call = [fn |-> "cube", positions |-> positions, verts |-> verts, factors |-> factors,
               roundness |-> roundness, rv3d |-> rv3d,
               local |-> [scale |-> 5, loc |-> <<0, 0, 0>>]]

CubeTest == SCULPT_brush_test_init(call.rv3d, call.local.loc, call.local.scale, 0,
                                   [axis |-> "Z", pass |-> 0, count |-> 1])

\* both overloads on the same vertices
CalcCubeDistances ==
  /\ call.fn = "cube"
  /\ call' = [fn |-> "cube_done", positions |-> call.positions, verts |-> call.verts,
              factors |-> call.factors, roundness |-> call.roundness, rv3d |-> call.rv3d,
              local |-> call.local,
              by_verts |-> calc_brush_cube_distances_verts(
                             CubeTest, call.local, call.roundness,
                             call.positions, call.verts, call.factors),
              by_positions |-> calc_brush_cube_distances(
                                 CubeTest, call.local, call.roundness,
                                 call.positions, call.factors)]
  /\ UNCHANGED <<symmVars, strokeVars>>

NextCube == CalcCubeDistances

SpecCube == InitCube /\ [][NextCube]_vars

\* the cube test of one vertex on its own
CubeTestOf(co) ==
  SCULPT_brush_test_cube(CubeTest, FracInt(0), co, call.local, call.roundness)

\* the result of an overload is right for the tested coordinates cos
CubeResultRight(res, cos) ==
  \A i \in DOMAIN cos :
    IF call.factors[i] = 0 \/ ~CubeTestOf(cos[i]).inside
      THEN res.factors[i] = 0 /\ res.r_distances[i] = FracInt(FLT_MAX)
      ELSE res.factors[i] = call.factors[i] /\ res.r_distances[i] = CubeTestOf(cos[i]).dist

\* C27: after calc_brush_cube_distances every vertex whose factor was 0 or
\* that the cube test rejects has factor 0 and distance FLT_MAX, and every
\* accepted vertex has the distance the cube test computed for that vertex
C27_CubeDistances ==
  call.fn = "cube_done" =>
    /\ CubeResultRight(call.by_verts,
                       [i \in 1..2 |-> call.positions[call.verts[i]]])
    /\ CubeResultRight(call.by_positions, call.positions)

(***************************************************************************)
(* Face visibility around a vertex (SpecVisible).                          *)
(***************************************************************************)

NumFaces == 3

Faces == 1..NumFaces

\* the faces a loop cycle walks: the radial loops of every edge of the disk
\* cycle of a BMVert; disk is the sequence of edges, each the set of faces
\* of its radial loops (empty for an edge without loop)
DiskFaces(disk) == UNION {disk[e] : e \in DOMAIN disk}

\* vert_all_faces_visible_get(BMVert *): hidden is the set of faces with
\* BM_ELEM_HIDDEN
vert_all_faces_visible_get_bmesh(hidden, disk) ==
  IF disk = <<>> THEN TRUE
  ELSE ~\E e \in DOMAIN disk : \E f \in disk[e] : f \in hidden

\* vert_all_faces_visible_get(hide_poly, vert_to_face_map, vert); hide_poly
\* is a sequence over the faces, empty without hide data
vert_all_faces_visible_get_mesh(hide_poly, vert_faces) ==
  IF hide_poly = <<>> THEN TRUE
  ELSE ~\E face \in vert_faces : hide_poly[face]

\* vert_all_faces_visible_get(hide_poly, subdiv_ccg, vert): the values the
\* call can return; reading an empty span is undefined
vert_all_faces_visible_get_grids(hide_poly, face_index) ==
  IF hide_poly = <<>> THEN BOOLEAN ELSE {hide_poly[face_index]}

\* vert_all_faces_visible_get(ss, vertex)
vert_all_faces_visible_get(pbvh_type, hide_poly, vert_faces, face_index, hidden, disk) ==
  CASE pbvh_type = "Mesh" ->
         IF hide_poly = <<>> THEN TRUE ELSE ~\E face \in vert_faces : hide_poly[face]
    [] pbvh_type = "BMesh" ->
         IF disk = <<>> THEN TRUE
         ELSE ~\E e \in DOMAIN disk : \E f \in disk[e] : f \in hidden
    [] pbvh_type = "Grids" ->
         IF hide_poly = <<>> THEN TRUE ELSE ~hide_poly[face_index]

HidePolys == {<<>>} \cup [Faces -> BOOLEAN]

Disks == UNION { [1..n -> SUBSET Faces] : n \in 0..2 }

\* BM_ELEM_HIDDEN of the faces for the hide data
HiddenFaces(hide_poly) == IF hide_poly = <<>> THEN {} ELSE {f \in Faces : hide_poly[f]}

InitVisible ==
  /\ IdleSession
  /\ \E hide_poly \in HidePolys, vert_faces \in SUBSET Faces, face_index \in Faces,
        disk \in Disks :
       call = [fn |-> "visible", hide_poly |-> hide_poly, vert_faces |-> vert_faces,
               face_index |-> face_index, disk |-> disk]

\* every overload on the same vertex and hide data
VertAllFacesVisible ==
  /\ call.fn = "visible"
  /\ \E grids \in vert_all_faces_visible_get_grids(call.hide_poly, call.face_index) :
       call' = [fn |-> "visible_done", hide_poly |-> call.hide_poly,
                vert_faces |-> call.vert_faces, face_index |-> call.face_index,
                disk |-> call.disk,
                session |-> [t \in PbvhTypes |->
                               vert_all_faces_visible_get(
                                 t, call.hide_poly, call.vert_faces, call.face_index,
                                 HiddenFaces(call.hide_poly), call.disk)],
                mesh |-> vert_all_faces_visible_get_mesh(call.hide_poly, call.vert_faces),
                grids |-> grids,
                bmesh |-> vert_all_faces_visible_get_bmesh(HiddenFaces(call.hide_poly),
                                                           call.disk)]
  /\ UNCHANGED <<symmVars, strokeVars>>

NextVisible == VertAllFacesVisible

SpecVisible == InitVisible /\ [][NextVisible]_vars

NoFaceHidden(faces) == faces \cap HiddenFaces(call.hide_poly) = {}

\* C30: every overload of vert_all_faces_visible_get returns true exactly
\* when no face incident to the vertex is hidden, and true without face-hide
\* data, for the mesh, the grids and the dynamic-mesh backend
C30_OverloadsAgree ==
  call.fn = "visible_done" =>
    /\ call.session["Mesh"] = NoFaceHidden(call.vert_faces)
    /\ call.mesh = NoFaceHidden(call.vert_faces)
    /\ call.session["Grids"] = NoFaceHidden({call.face_index})
    /\ call.grids = NoFaceHidden({call.face_index})
    /\ call.session["BMesh"] = NoFaceHidden(DiskFaces(call.disk))
    /\ call.bmesh = NoFaceHidden(DiskFaces(call.disk))

(***************************************************************************)
(* Interior neighbors of a vertex (SpecNeighbors).                         *)
(***************************************************************************)

\* the faces a mesh of the model is made of, as vertex cycles; a mesh is the
\* set of the indices of its faces (present)
AllFaces == <<<<1, 2, 3>>, <<1, 2, 4>>, <<1, 3, 4>>, <<2, 3, 4>>, <<1, 2, 3, 4>>>>

FaceIds == DOMAIN AllFaces

MeshVerts == 1..4

InFace(f, vert) == \E k \in DOMAIN AllFaces[f] : AllFaces[f][k] = vert

\* bke::mesh::face_find_adjacent_verts: the corners before and after vert
face_find_adjacent_verts(f, vert) ==
  LET face == AllFaces[f]
      n == Len(face)
      k == CHOOSE i \in 1..n : face[i] = vert
  IN <<face[IF k = 1 THEN n ELSE k - 1], face[IF k = n THEN 1 ELSE k + 1]>>

AppendNonDuplicates(seq, x) ==
  IF \E i \in DOMAIN seq : seq[i] = x THEN seq ELSE Append(seq, x)

\* Vector::remove_if for the vertices outside keep
RemoveIfNotIn(seq, keep) ==
  LET f[k \in 0..Len(seq)] ==
        IF k = 0 THEN <<>>
        ELSE IF seq[k] \in keep THEN Append(f[k - 1], seq[k]) ELSE f[k - 1]
  IN f[Len(seq)]

Range(seq) == {seq[i] : i \in DOMAIN seq}

\* vert_neighbors_get_mesh: the faces of vert_to_face[vert] in their order
vert_neighbors_get_mesh(present, hide_poly, vert) ==
  LET f[k \in 0..Len(AllFaces)] ==
        IF k = 0 THEN <<>>
        ELSE IF k \notin present \/ ~InFace(k, vert) THEN f[k - 1]
        ELSE IF hide_poly # <<>> /\ hide_poly[k] THEN f[k - 1]
        ELSE LET verts == face_find_adjacent_verts(k, vert)
             IN AppendNonDuplicates(AppendNonDuplicates(f[k - 1], verts[1]), verts[2])
  IN f[Len(AllFaces)]

\* vert_neighbors_get_bmesh: the loops of the vertex in their order
vert_neighbors_get_bmesh(present, vert) ==
  LET f[k \in 0..Len(AllFaces)] ==
        IF k = 0 THEN <<>>
        ELSE IF k \notin present \/ ~InFace(k, vert) THEN f[k - 1]
        ELSE LET verts == face_find_adjacent_verts(k, vert)
                 a == IF verts[1] # vert THEN Append(f[k - 1], verts[1]) ELSE f[k - 1]
             IN IF verts[2] # vert THEN Append(a, verts[2]) ELSE a
  IN f[Len(AllFaces)]

\* BM_vert_is_boundary, the bits of boundary_verts and
\* BKE_subdiv_ccg_coord_is_mesh_boundary: an edge of the vertex has exactly
\* one face
BM_vert_is_boundary(present, vert) ==
  \E u \in MeshVerts \ {vert} :
    Cardinality({f \in present :
                   InFace(f, vert) /\ u \in Range(face_find_adjacent_verts(f, vert))}) = 1

BoundaryVerts(present) == {v \in MeshVerts : BM_vert_is_boundary(present, v)}

\* BKE_subdiv_ccg_neighbor_coords_get without duplicates
BKE_subdiv_ccg_neighbor_coords_get(present, coord) ==
  vert_neighbors_get_mesh(present, <<>>, coord)

\* the body of calc_vert_neighbors_interior for one vertex of a mesh
calc_vert_neighbors_interior_mesh(present, hide_poly, vert) ==
  LET neighbors == vert_neighbors_get_mesh(present, hide_poly, vert)
  IN IF vert \in BoundaryVerts(present)
       THEN (IF Len(neighbors) = 2 THEN <<>>
             ELSE RemoveIfNotIn(neighbors, BoundaryVerts(present)))
       ELSE neighbors

\* the body of calc_vert_neighbors_interior for one grid vertex
calc_vert_neighbors_interior_grids(present, coord) ==
  LET neighbors == BKE_subdiv_ccg_neighbor_coords_get(present, coord)
  IN IF BM_vert_is_boundary(present, coord)
       THEN (IF Len(neighbors) = 2 THEN <<>>
             ELSE RemoveIfNotIn(neighbors, BoundaryVerts(present)))
       ELSE neighbors

\* vert_neighbors_get_interior_bmesh without the rule for corner vertices
vert_neighbors_get_interior_bmesh_corners(present, vert) ==
  LET neighbors == vert_neighbors_get_bmesh(present, vert)
  IN IF BM_vert_is_boundary(present, vert)
       THEN RemoveIfNotIn(neighbors, BoundaryVerts(present))
       ELSE neighbors

\* vert_neighbors_get_interior_bmesh
vert_neighbors_get_interior_bmesh(present, vert) ==
  LET neighbors == vert_neighbors_get_bmesh(present, vert)
  IN IF BM_vert_is_boundary(present, vert)
       THEN (IF Len(neighbors) = 2 THEN <<>>
             ELSE RemoveIfNotIn(neighbors, BoundaryVerts(present)))
       ELSE neighbors

InitNeighbors ==
  /\ IdleSession
  /\ \E present \in SUBSET FaceIds, hide_poly \in {<<>>} \cup [FaceIds -> BOOLEAN] :
       call = [fn |-> "neighbors", present |-> present, hide_poly |-> hide_poly]

\* the three implementations of calc_vert_neighbors_interior on every vertex
CalcVertNeighborsInterior ==
  /\ call.fn = "neighbors"
  /\ call' = [fn |-> "neighbors_done", present |-> call.present,
              hide_poly |-> call.hide_poly,
              mesh |-> [v \in MeshVerts |->
                          calc_vert_neighbors_interior_mesh(call.present, call.hide_poly, v)],
              grids |-> [v \in MeshVerts |->
                           calc_vert_neighbors_interior_grids(call.present, v)],
              bmesh |-> [v \in MeshVerts |->
                           vert_neighbors_get_interior_bmesh(call.present, v)]]
  /\ UNCHANGED <<symmVars, strokeVars>>

NextNeighbors == CalcVertNeighborsInterior

SpecNeighbors == InitNeighbors /\ [][NextNeighbors]_vars

\* the interior neighbors the rule gives for the neighbors all of a vertex
InteriorRule(v, all) ==
  IF v \notin BoundaryVerts(call.present) THEN all
  ELSE IF Cardinality(all) = 2 THEN {}
  ELSE all \cap BoundaryVerts(call.present)

\* C21: in the mesh, the grids and the dynamic-mesh implementation a boundary
\* vertex with exactly 2 neighbors gets no interior neighbor, every other
\* boundary vertex gets its neighbors that are boundary vertices, and a
\* vertex that is not on the boundary gets all its neighbors
C21_InteriorNeighborRule ==
  call.fn = "neighbors_done" =>
    \A v \in MeshVerts :
      /\ Range(call.mesh[v])
           = InteriorRule(v, Range(vert_neighbors_get_mesh(call.present, call.hide_poly, v)))
      /\ Range(call.grids[v])
           = InteriorRule(v, Range(BKE_subdiv_ccg_neighbor_coords_get(call.present, v)))
      /\ Range(call.bmesh[v])
           = InteriorRule(v, Range(vert_neighbors_get_bmesh(call.present, v)))

\* a quad and a triangle over one of its diagonals: vertex 3 is a corner,
\* vertex 2 is on the boundary with an interior neighbor, vertex 1 is interior
C21_Witness ==
  /\ call.fn = "neighbors_done"
  /\ call.present = {2, 5}
  /\ call.hide_poly = <<>>
  /\ \A r \in {call.mesh, call.grids, call.bmesh} :
       Range(r[3]) = {} /\ Range(r[2]) = {3, 4} /\ Range(r[1]) = {2, 4}

(***************************************************************************)
(* Symmetry feathering of the brush strength (SpecFeather).                *)
(***************************************************************************)

\* calc_overlap for the mirror combination symm and the radial repeat i of n
\* about axis (NONE without rotation): the angle 2*pi*i/n is a whole number
\* of quarter turns
calc_overlap(true_location, radius, symm_pass, axis, i, n) ==
  LET flipped == symmetry_flip(true_location, symm_pass)
      mirror == IF axis # NONE THEN RotQuarters(axis, (4 * i) \div n, flipped) ELSE flipped
      distsq == len_squared_v3v3(mirror, true_location)
  IN IF distsq <= 4 * radius * radius
       THEN FracDiv(FracSub(FracInt(2 * radius), FracSqrt(FracInt(distsq))),
                    FracInt(2 * radius))
       ELSE FracInt(0)

\* calc_radial_symmetry_feather: for (i = 1; i < sd.radial_symm[axis - 'X']; i++)
calc_radial_symmetry_feather(true_location, radius, rs, symm_pass, axis) ==
  LET n == rs[AxisIndex(axis)]
      f[i \in 0..n] ==
        IF i = 0 THEN FracInt(0)
        ELSE IF i >= n THEN f[i - 1]
        ELSE FracAdd(f[i - 1], calc_overlap(true_location, radius, symm_pass, axis, i, n))
  IN f[n]

\* calc_symmetry_feather; symmetry is cache.symmetry
calc_symmetry_feather(feather_flag, symmetry, true_location, radius, rs) ==
  IF ~feather_flag THEN FracInt(1)
  ELSE LET f[i \in -1..symmetry] ==
             IF i = -1 THEN FracInt(0)
             ELSE IF ~SCULPT_is_symmetry_iteration_valid(i, symmetry) THEN f[i - 1]
             ELSE FracAdd(FracAdd(FracAdd(FracAdd(f[i - 1],
                    calc_overlap(true_location, radius, i, NONE, 0, 1)),
                    calc_radial_symmetry_feather(true_location, radius, rs, i, "X")),
                    calc_radial_symmetry_feather(true_location, radius, rs, i, "Y")),
                    calc_radial_symmetry_feather(true_location, radius, rs, i, "Z"))
       IN FracDiv(FracInt(1), f[symmetry])

FeatherLocations == {<<0, 0, 0>>, <<1, 0, 0>>, <<3, 4, 0>>}

FeatherRadii == {1, 5}

\* the stroke cache is value-initialized when the stroke starts: symmetry 0
InitFeather ==
  /\ IdleSession
  /\ \E s \in 0..7, rs \in [1..3 -> RadialCounts], l \in FeatherLocations,
        r \in FeatherRadii, flag \in BOOLEAN :
       call = [fn |-> "stroke", symm |-> s, radial_symm |-> rs, true_location |-> l,
               radius |-> r, feather_flag |-> flag, symmetry |-> 0,
               feather |-> <<>>, passes |-> <<>>]

\* one step: do_symmetrical_brush_actions computes the feather from the
\* cache, then stores the symmetry of the mesh in it and runs the passes
\* (no tiling)
FeatherStep ==
  /\ call.fn = "stroke"
  /\ Len(call.feather) < MaxSteps
  /\ call' = [call EXCEPT
                !.feather = Append(@, calc_symmetry_feather(call.feather_flag, call.symmetry,
                                                            call.true_location, call.radius,
                                                            call.radial_symm)),
                !.symmetry = call.symm,
                !.passes = do_symmetrical_brush_actions(
                             [StrokeTile EXCEPT !.true_location = call.true_location],
                             call.radial_symm, call.symm)]
  /\ UNCHANGED <<symmVars, strokeVars>>

NextFeather == FeatherStep

SpecFeather == InitFeather /\ [][NextFeather]_vars

\* the sum of the overlap areas of the passes a step has run
OverlapOfPasses ==
  LET f[k \in 0..Len(call.passes)] ==
        IF k = 0 THEN FracInt(0)
        ELSE LET q == call.passes[k]
             IN FracAdd(f[k - 1],
                        calc_overlap(call.true_location, call.radius, q.mirror, q.axis,
                                     q.radial,
                                     IF q.axis = NONE THEN 1
                                     ELSE call.radial_symm[AxisIndex(q.axis)]))
  IN f[Len(call.passes)]

\* C23: with symmetry feathering enabled the strength of every step of a
\* stroke, the first one included, is divided by the sum of the overlap
\* areas of the mirror and radial passes that step runs
C23_FeatherOverPassesOfStep ==
  (call.fn = "stroke" /\ call.feather_flag) =>
    \A k \in 1..Len(call.feather) :
      call.feather[k] = FracDiv(FracInt(1), OverlapOfPasses)

====
